---------------------------- MODULE Spec2Model ----------------------------
(***************************************************************************)
(* A model of the Skyhooks allocator (ShisoftResearch/Skyhooks).           *)
(*                                                                         *)
(* The module holds one state machine per component, each with its own     *)
(* specification:                                                          *)
(*   SpecBump      bump_heap.rs   bump_allocate / swap_memory, concurrent  *)
(*   SpecBumpHeap  bump_heap.rs   alloc / dealloc with bookmarks           *)
(*   SpecBumpHeapCorrupt  bump_heap.rs  with bookmarks overwritten         *)
(*   SpecApi       api.rs, generic_heap.rs   reentrancy guard, dispatch    *)
(*   SpecSmall     small_heap.rs  allocate / free / thread exit            *)
(*   SpecSmallStray  small_heap.rs  the same with free of stray addresses  *)
(*   SpecSizeClass  size_class_index_from_size of the three heaps          *)
(*   SpecCalloc    api.rs, lib.rs  nu_calloc                               *)
(*   SpecList      collections/lflist.rs  push / pop, concurrent           *)
(*   SpecListSeq   collections/lflist.rs  push / pop / drop_out_all        *)
(*   SpecExchange  collections/lflist.rs  ExchangeSlot::exchange           *)
(*   SpecMap       lfmap.rs  get / insert / remove, concurrent             *)
(*   SpecMapSeq    lfmap.rs  get / insert / remove, one thread             *)
(*   SpecEvMap     collections/evmap.rs, envmap.rs  push / refresh         *)
(*   SpecResizeCap  lfmap.rs  capacity chosen by check_resize              *)
(*   SpecNodeLayout  small_heap.rs  node bases for every node count        *)
(* A specification leaves the variables of the other components at their   *)
(* initial values.                                                         *)
(***************************************************************************)
EXTENDS Integers, Naturals, Sequences, FiniteSets, TLC

VARIABLES
    \* ---- bump heap instance (bump_heap.rs, AllocatorInstance)
    base,        \* AllocatorInstance.base  (AtomicUsize)
    tail,        \* AllocatorInstance.tail  (AtomicUsize)
    mapped,      \* bases of the regions currently mapped by allocate_address_space
    regions,     \* bases that were installed as AllocatorInstance.base (reserved regions)
    bpc,         \* per thread: position inside bump_allocate / swap_memory
    bloc,        \* per thread: locals of bump_allocate / swap_memory
    bcalls,      \* number of bump_allocate calls started
    allocated,   \* ranges <<addr, size>> returned by bump_allocate
    \* ---- bump heap objects (bump_heap.rs, alloc / dealloc)
    free_list,   \* AllocatorInstance.sizes[i].free_list, newest first
    mem,         \* the words written to memory: address -> word
    hlive,       \* objects returned by alloc and not yet passed to dealloc
    hfreed,      \* per tier: the last dealloc not yet followed by an alloc of the tier
    hlast,       \* the last alloc or dealloc call and what it did
    hops,        \* number of alloc / dealloc calls made
    \* ---- public entry points (api.rs) and the generic heap (generic_heap.rs)
    INNER_CALL,  \* per thread: the thread-local reentrancy flag
    api_stack,   \* per thread: the public calls in progress, innermost last
    api_objs,    \* the objects handed out and not yet freed
    api_next,    \* the next object address to hand out
    api_done,    \* the public call that returned last
    api_freed,   \* what generic free did with each object it was given
    api_calls,   \* number of public calls made
    \* ---- small heap (small_heap.rs)
    alloc_pos,        \* per node: NodeMeta.alloc_pos
    common_free,      \* per node and tier: CommonSizeClass.free_list, newest first
    common_reserved,  \* per node and tier: CommonSizeClass.reserved, oldest first
    pending_free,     \* per node: RemoteNodeFree.pending_free, newest first
    thread_free,      \* per node: the thread ids registered in NodeMeta.thread_free
    objects,          \* per node: the address index, address -> ObjectMeta
    producers,        \* per node: the thread ids whose producer is registered
    cache,            \* per thread: the entries of its producer not yet drained
    t_free,           \* per thread and tier: SizeClass.free_list, newest first
    reserved,         \* per thread and tier: SizeClass.reserved (addr, pos)
    tstate,           \* per thread: "new" (no ThreadMeta yet), "alive", "exiting", "exited"
    spc,              \* per thread: position inside allocate / free / drop
    sloc,             \* per thread: locals of the call in progress
    sops,             \* number of allocate / free / exit calls made
    slive,            \* addresses returned by allocate and not yet passed to free
    sdup,             \* addresses that allocate returned while they were live
    sexp,             \* per thread and tier: the own address freed last, if any
    slast,            \* the allocate that returned last
    sapplied,         \* remotely freed addresses the sentinel has applied
    sowed,            \* per thread: addresses pushed onto its free lists, still there
    sowed_pages,      \* per thread: reserved pages it handed back on exit
    sstray,           \* the last finished free of an address allocate never returned
    \* size classes
    sc_size,          \* the request size handed to size_class_index_from_size
    sc_fn,            \* which module's function was called
    sc_ret,           \* what it returned
    \* nu_calloc
    cal_args,         \* nmemb and size of the call, and the file of the function
    cal_pc,           \* position of the call
    cal_total,        \* total_size
    cal_block,        \* the block nu_malloc returned: its size, its leading zeroed bytes
    cal_ret,          \* the call's result: returned pointer, fault, bytes written at null
    \* ---- paged list (collections/lflist.rs)
    pl_list,          \* List: head (a buffer), count, buffer_cap
    pl_bufs,          \* the buffers allocated so far: head, next, refs, slots, freed
    pl_loc,           \* per thread: the call in progress, its position and locals
    pl_log,           \* the calls in order: push at its call, pop at its return, callbacks
    pl_phase,         \* "run", then "drain" once every thread has returned, then "done"
    pl_ops,           \* number of push / pop / drop_out_all calls made
    \* ---- exchange slot (collections/lflist.rs, ExchangeSlot)
    ex_state,         \* ExchangeSlot.state
    ex_data,          \* ExchangeSlot.data, the cell
    ex_data_state,    \* ExchangeSlot.data_state
    ex_loc,           \* per thread: position and locals of its exchange call
    ex_log,           \* per thread: the calls that ended, input and result
    \* ---- hash table (lfmap.rs, Table)
    map_old,          \* Table.old_chunk
    map_new,          \* Table.new_chunk
    map_chunks,       \* the chunks allocated so far
    map_loc,          \* per thread: the call in progress, its position and locals
    map_log,          \* the calls that ended, in order, with their results
    map_ops,          \* number of get / insert / remove calls made
    \* ---- eventually consistent maps (collections/evmap.rs, envmap.rs)
    ev_cap,           \* buffer capacity of the list of a bin
    ev_bins,          \* per bin / producer cache: the pairs pushed and not yet drained
    ev_map,           \* the authoritative map: key -> value, 0 where absent
    ev_loc,           \* per thread: position and locals of its call
    ev_log,           \* the calls that ended, in order
    \* ---- capacity chosen by a resize (lfmap.rs, head of Table::check_resize)
    rs_pc,            \* "start" before the call, "resized" / "kept" after it
    rs_cap,           \* capacity of the old chunk
    rs_occupation,    \* occupation of the old chunk
    rs_new_cap,       \* capacity of the chunk allocated, 0 when none was
    \* ---- layout of the node heaps (small_heap.rs, statics and bump cursor)
    nm_nodes,         \* NUM_NUMA_NODES of the machine
    nm_node,          \* the node whose bump cursor is followed
    nm_pos,           \* alloc_pos of that node
    nm_ret            \* the address its last fetch_add handed out, 0 when none

bumpVars == <<base, tail, mapped, regions, bpc, bloc, bcalls, allocated>>

heapVars == <<free_list, mem, hlive, hfreed, hlast, hops>>

apiVars == <<INNER_CALL, api_stack, api_objs, api_next, api_done, api_freed, api_calls>>

smallVars ==
    <<alloc_pos, common_free, common_reserved, pending_free, thread_free,
      objects, producers, cache, t_free, reserved, tstate, spc, sloc, sops,
      slive, sdup, sexp, slast, sapplied, sowed, sowed_pages, sstray>>

\* What the actions of one component leave alone.
sizeClassVars == <<sc_size, sc_fn, sc_ret>>

callocVars == <<cal_args, cal_pc, cal_total, cal_block, cal_ret>>

pagedVars == <<pl_list, pl_bufs, pl_loc, pl_log, pl_phase, pl_ops>>

exVars == <<ex_state, ex_data, ex_data_state, ex_loc, ex_log>>

mapVars == <<map_old, map_new, map_chunks, map_loc, map_log, map_ops>>

evVars == <<ev_cap, ev_bins, ev_map, ev_loc, ev_log>>

rsVars == <<rs_pc, rs_cap, rs_occupation, rs_new_cap>>

nmVars == <<nm_nodes, nm_node, nm_pos, nm_ret>>

\* The collections modelled on their own.
collectionVars == <<exVars, mapVars, evVars, rsVars, nmVars>>

BumpFrame == UNCHANGED <<heapVars, apiVars, smallVars, sizeClassVars, callocVars, pagedVars,
    collectionVars>>

HeapFrame == UNCHANGED <<apiVars, smallVars, sizeClassVars, callocVars, pagedVars,
    collectionVars>>

ApiFrame == UNCHANGED <<bumpVars, heapVars, smallVars, sizeClassVars, callocVars, pagedVars,
    collectionVars>>

SmallFrame == UNCHANGED <<bumpVars, heapVars, apiVars, sizeClassVars, callocVars, pagedVars,
    collectionVars>>

CallocFrame == UNCHANGED <<bumpVars, heapVars, apiVars, smallVars, sizeClassVars, pagedVars,
    collectionVars>>

SizeClassFrame == UNCHANGED <<bumpVars, heapVars, apiVars, smallVars, callocVars, pagedVars,
    collectionVars>>

ListFrame ==
    UNCHANGED <<bumpVars, heapVars, apiVars, smallVars, sizeClassVars, callocVars,
                collectionVars>>

allocatorVars ==
    <<bumpVars, heapVars, apiVars, smallVars, sizeClassVars, callocVars, pagedVars>>

ExFrame == UNCHANGED <<allocatorVars, mapVars, evVars, rsVars, nmVars>>

MapFrame == UNCHANGED <<allocatorVars, exVars, evVars, rsVars, nmVars>>

\* The capacity of the lists is fixed at construction.
EvFrame == UNCHANGED <<allocatorVars, exVars, mapVars, rsVars, nmVars, ev_cap>>

RsFrame == UNCHANGED <<allocatorVars, exVars, mapVars, evVars, nmVars>>

NmFrame == UNCHANGED <<allocatorVars, exVars, mapVars, evVars, rsVars>>

(***************************************************************************)
(* Arithmetic helpers shared by the components.                            *)
(***************************************************************************)
Pow2(n) == 2 ^ n

Max(a, b) == IF a >= b THEN a ELSE b

Min(a, b) == IF a <= b THEN a ELSE b

(***************************************************************************)
(* Bump heap: the region and its cursor.                                   *)
(***************************************************************************)
HEAP_VIRT_SIZE == 134217728

\* Bounds of the bump model.
NumBumpThreads == 2
MaxBumpCalls == 3
NumRegionSlots == 3

BumpThreads == 1 .. NumBumpThreads

\* allocate_address_space(): mmap returns the base of any range of
\* HEAP_VIRT_SIZE bytes that is not mapped; the candidates are the multiples
\* of the region size, so that two regions may or may not be adjacent.
RegionBases == { k * HEAP_VIRT_SIZE : k \in 1 .. NumRegionSlots }

FreeRegionBases == RegionBases \ mapped

\* Sizes handed to bump_allocate by alloc: a size class plus the 16-byte bookmark.
BumpSizes == { 32, 48 }

\* How far the first region is filled by earlier calls when the model starts:
\* empty, 64 bytes left, or exactly full.
InitFill == { 0, HEAP_VIRT_SIZE - 64, HEAP_VIRT_SIZE }

BumpIdleLoc == [size |-> 0, base |-> 0, current_tail |-> 0, new_base |-> 0]

BumpInit ==
    /\ base \in RegionBases
    /\ \E off \in InitFill :
          /\ tail = base + off
          /\ allocated = IF off > 0 THEN { <<base, off>> } ELSE {}
    /\ mapped = { base }
    /\ regions = { base }
    /\ bpc = [t \in BumpThreads |-> "idle"]
    /\ bloc = [t \in BumpThreads |-> BumpIdleLoc]
    /\ bcalls = 0

BumpFrozen ==
    /\ base = HEAP_VIRT_SIZE
    /\ tail = HEAP_VIRT_SIZE
    /\ mapped = { HEAP_VIRT_SIZE }
    /\ regions = { HEAP_VIRT_SIZE }
    /\ bpc = [t \in BumpThreads |-> "idle"]
    /\ bloc = [t \in BumpThreads |-> BumpIdleLoc]
    /\ bcalls = 0
    /\ allocated = {}

\* bump_allocate(size): entry.
BumpCall(t, size) ==
    /\ bpc[t] = "idle"
    /\ bcalls < MaxBumpCalls
    /\ bcalls' = bcalls + 1
    /\ bloc' = [bloc EXCEPT ![t] = [BumpIdleLoc EXCEPT !.size = size]]
    /\ bpc' = [bpc EXCEPT ![t] = "load_base"]
    /\ UNCHANGED <<base, tail, mapped, regions, allocated>>
    /\ BumpFrame

\* let base = self.base.load(Relaxed);
BumpLoadBase(t) ==
    /\ bpc[t] = "load_base"
    /\ bloc' = [bloc EXCEPT ![t].base = base]
    /\ bpc' = [bpc EXCEPT ![t] = "load_tail"]
    /\ UNCHANGED <<base, tail, mapped, regions, bcalls, allocated>>
    /\ BumpFrame

\* The branch bump_allocate takes on the values it has loaded.
BumpBranch(b, current_tail, size) ==
    LET new_tail == current_tail + size
        upper_bound == b + HEAP_VIRT_SIZE
    IN  IF current_tail < b \/ current_tail > upper_bound THEN "load_base"
        ELSE IF new_tail > upper_bound THEN "mmap"
        ELSE "cas_tail"

\* let current_tail = self.tail.load(Relaxed); and the range tests.
BumpLoadTail(t) ==
    /\ bpc[t] = "load_tail"
    /\ bloc' = [bloc EXCEPT ![t].current_tail = tail]
    /\ bpc' = [bpc EXCEPT ![t] = BumpBranch(bloc[t].base, tail, bloc[t].size)]
    /\ UNCHANGED <<base, tail, mapped, regions, bcalls, allocated>>
    /\ BumpFrame

\* self.tail.compare_and_swap(current_tail, new_tail): success returns current_tail.
BumpCasTail(t) ==
    /\ bpc[t] = "cas_tail"
    /\ IF tail = bloc[t].current_tail
       THEN /\ tail' = bloc[t].current_tail + bloc[t].size
            /\ allocated' = allocated \cup { <<bloc[t].current_tail, bloc[t].size>> }
            /\ bpc' = [bpc EXCEPT ![t] = "idle"]
            /\ bloc' = [bloc EXCEPT ![t] = BumpIdleLoc]
       ELSE /\ bpc' = [bpc EXCEPT ![t] = "load_base"]
            /\ UNCHANGED <<tail, allocated, bloc>>
    /\ UNCHANGED <<base, mapped, regions, bcalls>>
    /\ BumpFrame

\* swap_memory: let new_base = allocate_address_space();
SwapMmap(t) ==
    /\ bpc[t] = "mmap"
    /\ \E nb \in FreeRegionBases :
          /\ mapped' = mapped \cup { nb }
          /\ bloc' = [bloc EXCEPT ![t].new_base = nb]
    /\ bpc' = [bpc EXCEPT ![t] = "cas_base"]
    /\ UNCHANGED <<base, tail, regions, bcalls, allocated>>
    /\ BumpFrame

\* swap_memory: self.base.compare_and_swap(old_base, new_base)
SwapCasBase(t) ==
    /\ bpc[t] = "cas_base"
    /\ IF base = bloc[t].base
       THEN /\ base' = bloc[t].new_base
            /\ regions' = regions \cup { bloc[t].new_base }
            /\ bpc' = [bpc EXCEPT ![t] = "store_tail"]
       ELSE /\ bpc' = [bpc EXCEPT ![t] = "munmap"]
            /\ UNCHANGED <<base, regions>>
    /\ UNCHANGED <<tail, mapped, bloc, bcalls, allocated>>
    /\ BumpFrame

\* swap_memory, CAS lost: dealloc_address_space(new_base)
SwapRelease(t) ==
    /\ bpc[t] = "munmap"
    /\ mapped' = mapped \ { bloc[t].new_base }
    /\ bpc' = [bpc EXCEPT ![t] = "load_base"]
    /\ UNCHANGED <<base, tail, regions, bloc, bcalls, allocated>>
    /\ BumpFrame

\* swap_memory, CAS won: self.tail.store(new_base)
SwapStoreTail(t) ==
    /\ bpc[t] = "store_tail"
    /\ tail' = bloc[t].new_base
    /\ bpc' = [bpc EXCEPT ![t] = "load_base"]
    /\ UNCHANGED <<base, mapped, regions, bloc, bcalls, allocated>>
    /\ BumpFrame

BumpNext ==
    \E t \in BumpThreads :
        \/ \E size \in BumpSizes : BumpCall(t, size)
        \/ BumpLoadBase(t)
        \/ BumpLoadTail(t)
        \/ BumpCasTail(t)
        \/ SwapMmap(t)
        \/ SwapCasBase(t)
        \/ SwapRelease(t)
        \/ SwapStoreTail(t)


(***************************************************************************)
(* Bump heap: alloc and dealloc of objects (one caller at a time).         *)
(***************************************************************************)
NUM_SIZE_CLASS == 16

BUMP_SIZE_CLASS == NUM_SIZE_CLASS * 2

BumpTiers == 0 .. BUMP_SIZE_CLASS - 1

\* Bound of the object model.
MaxHeapOps == 4

\* The layouts (size, align) passed to alloc.
Layouts ==
    { [size |-> 1, align |-> 1], [size |-> 128, align |-> 8],
      [size |-> 256, align |-> 8], [size |-> 128, align |-> 64] }

RECURSIVE BitOr(_, _)
BitOr(a, b) ==
    IF a = 0 THEN b
    ELSE IF b = 0 THEN a
    ELSE (IF a % 2 = 1 \/ b % 2 = 1 THEN 1 ELSE 0) + 2 * BitOr(a \div 2, b \div 2)

Shr(v, n) == v \div Pow2(n)

\* utils::upper_power_of_2: the shifts and ors of the source.  For v = 0 the
\* decrement wraps to all ones and the final increment wraps back to 0.
upper_power_of_2(v) ==
    IF v = 0 THEN 0 ELSE
    LET v0 == v - 1
        v1 == BitOr(v0, Shr(v0, 1))
        v2 == BitOr(v1, Shr(v1, 2))
        v3 == BitOr(v2, Shr(v2, 4))
        v4 == BitOr(v3, Shr(v3, 8))
        v5 == BitOr(v4, Shr(v4, 16))
    IN  v5 + 1

RECURSIVE log_2_of(_)
\* generic_heap::log_2_of: word bits - leading zeros - 1, for 1 <= num.
log_2_of(num) == IF num <= 1 THEN 0 ELSE 1 + log_2_of(num \div 2)

RECURSIVE is_power_of_2(_)
\* utils::is_power_of_2: (x & (x - 1)) == 0, for 1 <= x.
is_power_of_2(x) ==
    IF x = 1 THEN TRUE
    ELSE IF x % 2 = 1 THEN FALSE
    ELSE is_power_of_2(x \div 2)

\* generic_heap::size_class_index_from_size
size_class_index_from_size(size) ==
    IF size < 2 THEN 0
    ELSE LET log == log_2_of(size)
         IN  IF is_power_of_2(size) /\ log > 0 THEN log - 1 ELSE log

\* bump_heap::size_classes: sizes[i].size, 2 doubled i times.
BumpSizeClassSize(i) == Pow2(i + 1)

\* utils::align_padding, align a power of two.
align_padding(len, align) == (align - (len % align)) % align

\* bump_heap::actual_size_of
actual_size_of(align, size) == upper_power_of_2(size + align - 1)

\* AllocatorInstance::size_of_object for the size classes the table covers.
size_of_object(layout) ==
    LET actual_size == actual_size_of(layout.align, layout.size)
        size_class_index == size_class_index_from_size(actual_size)
    IN  [actual_size |-> BumpSizeClassSize(size_class_index),
         size_class_index |-> size_class_index]

\* size_of_bookmark_word::<Bookmark>(), Bookmark = (usize, usize)
BookmarkSize == 16

WordSize == 8

\* The word alloc writes in front of the object: ptr::write(size_ptr, actual_size + 1)
BookmarkWordFlagless(actual_size) == actual_size

BookmarkWord(actual_size) == actual_size + 1

\* mem with word w stored at address a.
MemWrite(m, a, w) == [x \in DOMAIN m \cup { a } |-> IF x = a THEN w ELSE m[x]]

NoFreed == [addr |-> 0, layout |-> [size |-> 0, align |-> 0]]

NoCall == [op |-> "none", layout |-> [size |-> 0, align |-> 0], ret |-> 0,
           expect |-> 0, from_free |-> FALSE, pushed |-> FALSE]

HeapInit ==
    /\ free_list = [i \in BumpTiers |-> <<>>]
    /\ mem = <<>>
    /\ hlive = {}
    /\ hfreed = [i \in BumpTiers |-> NoFreed]
    /\ hlast = NoCall
    /\ hops = 0

\* GlobalAlloc::alloc.  The bump_allocate inside runs alone: it returns the
\* tail when the request fits, and otherwise swaps in a fresh region first.
HeapAlloc(layout) ==
    LET so == size_of_object(layout)
        idx == so.size_class_index
        size_with_bookmark == so.actual_size + BookmarkSize
        pop == free_list[idx] # <<>>
        fits == tail + size_with_bookmark <= base + HEAP_VIRT_SIZE
    IN
    /\ hops < MaxHeapOps
    /\ hops' = hops + 1
    /\ \E nb \in (IF pop \/ fits THEN { base } ELSE FreeRegionBases) :
          LET bumped == IF fits THEN tail ELSE nb
              origin_addr == IF pop THEN Head(free_list[idx])
                             ELSE bumped + BookmarkSize
              final_addr == origin_addr + align_padding(origin_addr, layout.align)
          IN  /\ free_list' = IF pop THEN [free_list EXCEPT ![idx] = Tail(@)]
                              ELSE free_list
              /\ base' = IF pop THEN base ELSE nb
              /\ tail' = IF pop THEN tail ELSE bumped + size_with_bookmark
              /\ mapped' = IF pop THEN mapped ELSE mapped \cup { nb }
              /\ regions' = IF pop THEN regions ELSE regions \cup { nb }
              /\ allocated' = IF pop THEN allocated
                              ELSE allocated \cup { <<bumped, size_with_bookmark>> }
              /\ mem' = MemWrite(MemWrite(mem, final_addr - WordSize,
                                          BookmarkWord(so.actual_size)),
                                 final_addr - 2 * WordSize, origin_addr)
              /\ hlive' = hlive \cup { [addr |-> final_addr, layout |-> layout] }
              /\ hlast' = [op |-> "alloc", layout |-> layout, ret |-> final_addr,
                           expect |-> IF hfreed[idx].layout = layout
                                      THEN hfreed[idx].addr ELSE 0,
                           from_free |-> pop, pushed |-> FALSE]
    /\ hfreed' = [hfreed EXCEPT ![idx] = NoFreed]
    /\ UNCHANGED <<bpc, bloc, bcalls>>
    /\ HeapFrame

\* origin_addr > addr + maximum_free_list_covered_size(), the bound being
\* 2 << (BUMP_SIZE_CLASS - 1) = 2^32 = 65536 * 65536.
BeyondCovered(origin_addr, addr) ==
    LET d == origin_addr - addr
    IN  d > 0 /\ (d \div 65536 > 65536 \/ (d \div 65536 = 65536 /\ d % 65536 > 0))

\* The fail-safe test of dealloc.
DeallocRejects(origin_addr, addr, record_size, actual_size) ==
    \/ origin_addr < addr
    \/ BeyondCovered(origin_addr, addr)
    \/ record_size # actual_size

\* GlobalAlloc::dealloc of an object alloc returned, with the layout it was
\* allocated with.
HeapDealloc(obj) ==
    LET so == size_of_object(obj.layout)
        addr == obj.addr
        record_size == mem[addr - WordSize] - 1
        origin_addr == mem[addr - 2 * WordSize]
        rejected == DeallocRejects(origin_addr, addr, record_size, so.actual_size)
        idx == size_class_index_from_size(so.actual_size)
    IN
    /\ hops < MaxHeapOps
    /\ hops' = hops + 1
    /\ hlive' = hlive \ { obj }
    /\ free_list' = IF rejected THEN free_list
                    ELSE [free_list EXCEPT ![idx] = <<origin_addr>> \o @]
    /\ hfreed' = [hfreed EXCEPT ![so.size_class_index] =
                      [addr |-> addr, layout |-> obj.layout]]
    /\ hlast' = [op |-> "dealloc", layout |-> obj.layout, ret |-> addr,
                 expect |-> 0, from_free |-> FALSE, pushed |-> ~rejected]
    /\ UNCHANGED <<base, tail, mapped, regions, allocated, mem, bpc, bloc, bcalls>>
    /\ HeapFrame

HeapNext ==
    \/ \E layout \in Layouts : HeapAlloc(layout)
    \/ \E obj \in hlive : HeapDealloc(obj)

\* The program overwrites the bookmark of a live object (an overflow of the
\* block in front of it): the two words before the object become
\* origin_addr and word.
HeapCorruptBookmark(obj, origin_addr, word) ==
    /\ hops < MaxHeapOps
    /\ hops' = hops + 1
    /\ mem' = MemWrite(MemWrite(mem, obj.addr - WordSize, word),
                       obj.addr - 2 * WordSize, origin_addr)
    /\ UNCHANGED <<base, tail, mapped, regions, allocated, bpc, bloc, bcalls,
                   free_list, hlive, hfreed, hlast>>
    /\ HeapFrame

\* Origins written over a bookmark: below, at and above the object.
CorruptOrigins(addr) == { addr - 64, addr, addr + 64 }

\* Size words written over a bookmark: the word of the layout's tier and the
\* word of a tier no layout of Layouts has.
CorruptWords(layout) == { BookmarkWord(size_of_object(layout).actual_size), BookmarkWord(16) }

\* alloc and dealloc of a program that also overwrites bookmarks.
HeapCorruptNext ==
    \/ \E layout \in Layouts : HeapAlloc(layout)
    \/ \E obj \in hlive : HeapDealloc(obj)
    \/ \E obj \in hlive : \E origin_addr \in CorruptOrigins(obj.addr) :
          \E word \in CorruptWords(obj.layout) :
              HeapCorruptBookmark(obj, origin_addr, word)

(***************************************************************************)
(* Public entry points and the generic heap.                               *)
(***************************************************************************)
\* Bounds of the entry point model.
NumApiThreads == 2
MaxApiCalls == 3
MaxApiDepth == 2

ApiThreads == 1 .. NumApiThreads

NULL_PTR == 0

BOOKMARK_TYPE_FLAG_MASK == 1

\* small_heap::MAXIMUM_SIZE: the size of the last of the 16 tiers.
MAXIMUM_SIZE == Pow2(NUM_SIZE_CLASS)

\* Request sizes: zero, a small one, one past the largest small tier.
ApiSizes == { 0, 8, MAXIMUM_SIZE + 1 }

\* The small heap and the large heap write no word in front of the objects
\* they return; what generic free reads there is whatever the memory holds.
UnwrittenWords == { 17, 64 }

\* Bookmarks handed to make_bookmark (bit 0 clear, as it asserts).
MadeBookmarks == { 64 }

\* object_bookmark: (bookmark & !MASK, bookmark & MASK == 0).
object_bookmark(word) ==
    [bookmark |-> word - (word % (BOOKMARK_TYPE_FLAG_MASK + 1)),
     is_bump |-> word % (BOOKMARK_TYPE_FLAG_MASK + 1) = 0]

\* make_bookmark: the word it writes in front of the object.
make_bookmark(bookmark, is_bump) == IF is_bump THEN bookmark + 1 ELSE bookmark

\* generic_heap::free: the heap whose free is called.
GenericFreePath(word) ==
    IF ~object_bookmark(word).is_bump THEN "small" ELSE "large"

\* generic_heap::malloc: the heap whose allocate is called.
GenericMallocHeap(size) == IF size > MAXIMUM_SIZE THEN "large" ELSE "small"

\* The guard of nu_malloc / nu_free / nu_realloc: where a call goes, given
\* the flag it finds.
GuardRouteAlwaysGeneric(is_inner) == "generic"

GuardRoute(is_inner) == IF ~is_inner THEN "generic" ELSE "bump"

\* The early returns in front of the guard.
EarlyReturnFreeOnly(fn, size, ptr) == fn = "nu_free" /\ ptr = NULL_PTR

EarlyReturn(fn, size, ptr) ==
    \/ fn = "nu_malloc" /\ size = 0
    \/ fn = "nu_free" /\ ptr = NULL_PTR

NoApiCall == [thread |-> 0, fn |-> "none", size |-> 0, ptr |-> 0,
              entry_flag |-> FALSE, exit_flag |-> FALSE, route |-> "none",
              served |-> {}, ret |-> 0, fault |-> FALSE, old_size |-> 0]

ApiInit ==
    /\ INNER_CALL = [t \in ApiThreads |-> FALSE]
    /\ api_stack = [t \in ApiThreads |-> <<>>]
    /\ api_objs = {}
    /\ api_next = 1
    /\ api_done = NoApiCall
    /\ api_freed = {}
    /\ api_calls = 0

ApiPtrs == { NULL_PTR } \cup { o.addr : o \in api_objs }

ApiObj(ptr) == CHOOSE o \in api_objs : o.addr = ptr

\* The words a fresh object of the given heap may have in front of it.
WordsOf(heap, size) ==
    IF heap = "bump"
    THEN { BookmarkWord(size_of_object([size |-> size, align |-> 1]).actual_size) }
    ELSE UnwrittenWords

\* size_of(ptr, bookmark): the recorded size realloc compares with the
\* request; bump_heap::size_of returns the bookmark.
RecordedSize(route, ptr) ==
    IF ptr = NULL_PTR THEN 0
    ELSE IF route = "bump" THEN object_bookmark(ApiObj(ptr).word).bookmark
    ELSE ApiObj(ptr).size

\* Entry of nu_malloc / nu_free / nu_realloc up to the dispatch: the early
\* return, or the test of the flag and its setting.  A call made while
\* another call of the thread is being served is a nested call.
ApiCall(t, fn, size, ptr) ==
    /\ api_calls < MaxApiCalls
    /\ Len(api_stack[t]) < MaxApiDepth
    /\ api_stack[t] # <<>> => ~api_stack[t][Len(api_stack[t])].done
    /\ fn = "nu_malloc" => ptr = NULL_PTR
    /\ fn = "nu_free" => size = 0
    /\ ptr # NULL_PTR =>
          \A u \in ApiThreads : \A i \in 1 .. Len(api_stack[u]) :
              api_stack[u][i].ptr # ptr
    /\ api_calls' = api_calls + 1
    /\ LET early == EarlyReturn(fn, size, ptr)
           route == IF early THEN "none" ELSE GuardRoute(INNER_CALL[t])
           frame == [fn |-> fn, size |-> size, ptr |-> ptr,
                     entry_flag |-> INNER_CALL[t], route |-> route,
                     served |-> {}, done |-> early, ret |-> NULL_PTR,
                     fault |-> FALSE, old_size |-> RecordedSize(route, ptr)]
       IN  /\ api_stack' = [api_stack EXCEPT ![t] = Append(@, frame)]
           /\ INNER_CALL' = IF route = "generic"
                            THEN [INNER_CALL EXCEPT ![t] = TRUE]
                            ELSE INNER_CALL
    /\ UNCHANGED <<api_objs, api_next, api_done, api_freed>>
    /\ ApiFrame

ApiTop(t) == api_stack[t][Len(api_stack[t])]

ApiServing(t, fn) ==
    /\ api_stack[t] # <<>>
    /\ ~ApiTop(t).done
    /\ ApiTop(t).fn = fn

ApiFinish(t, served, ret) ==
    api_stack' = [api_stack EXCEPT
                     ![t][Len(api_stack[t])].served = served,
                     ![t][Len(api_stack[t])].ret = ret,
                     ![t][Len(api_stack[t])].done = TRUE]

\* The call stops at a failed assertion or bounds check, before any effect.
ApiFault(t, served) ==
    /\ api_stack' = [api_stack EXCEPT
                        ![t][Len(api_stack[t])].served = served,
                        ![t][Len(api_stack[t])].fault = TRUE,
                        ![t][Len(api_stack[t])].done = TRUE]
    /\ UNCHANGED <<api_objs, api_next, api_freed>>

\* debug_assert! is compiled into a debug build only.
Builds == { "debug", "release" }

\* malloc(0) inside a heap.  small_heap::allocate(0): log_2_of(0) and the
\* log - 1 after it underflow (a panic in a debug build, values next to
\* usize::MAX in a release build) and meta.sizes[..] is indexed out of its
\* 16 elements, a panic in either build.  bump_heap::malloc(0):
\* upper_power_of_2(0) underflows, a panic in a debug build; a release build
\* wraps to 0 and serves the request from tier 0.
MallocFaults(heap, size, build) ==
    size = 0 /\ (heap = "small" \/ build = "debug")

\* bump_heap::realloc: debug_assert!(is_bump) on what object_bookmark returns.
BumpReallocAsserts(build, word) ==
    build = "debug" /\ ~object_bookmark(word).is_bump

NewObj(heap, size, word) ==
    [addr |-> api_next, heap |-> heap, size |-> size, word |-> word,
     made_bump |-> FALSE]

\* The heap a routed malloc is served by.
MallocHeap(route, size) ==
    IF route = "generic" THEN GenericMallocHeap(size) ELSE "bump"

\* The heap a routed free is served by.
FreePath(route, word) ==
    IF route = "generic" THEN GenericFreePath(word) ELSE "bump"

FreedRecord(o, route) ==
    IF route = "generic"
    THEN { [word |-> o.word, heap |-> o.heap, made_bump |-> o.made_bump,
            path |-> GenericFreePath(o.word)] }
    ELSE {}

\* generic_heap::malloc or bump_heap::malloc, as the guard chose.
ApiMalloc(t) ==
    /\ ApiServing(t, "nu_malloc")
    /\ LET f == ApiTop(t)
           heap == MallocHeap(f.route, f.size)
       IN  /\ \E w \in WordsOf(heap, f.size) :
                 api_objs' = api_objs \cup { NewObj(heap, f.size, w) }
           /\ ApiFinish(t, { heap }, api_next)
    /\ api_next' = api_next + 1
    /\ UNCHANGED <<INNER_CALL, api_done, api_freed, api_calls>>
    /\ ApiFrame

\* generic_heap::free or bump_heap::free, as the guard chose.
ApiFree(t) ==
    /\ ApiServing(t, "nu_free")
    /\ LET f == ApiTop(t)
           o == ApiObj(f.ptr)
       IN  /\ api_objs' = api_objs \ { o }
           /\ api_freed' = api_freed \cup FreedRecord(o, f.route)
           /\ ApiFinish(t, { FreePath(f.route, o.word) }, NULL_PTR)
    /\ UNCHANGED <<INNER_CALL, api_next, api_done, api_calls>>
    /\ ApiFrame

\* generic_heap::realloc / bump_heap::realloc: the old size covers the request.
ApiReallocShrink(old_size, size) == old_size >= size

\* generic_heap::realloc or bump_heap::realloc, as the guard chose.
ApiRealloc(t) ==
    /\ ApiServing(t, "nu_realloc")
    /\ LET f == ApiTop(t)
           heap == MallocHeap(f.route, f.size)
       IN  IF f.ptr = NULL_PTR
           THEN \E build \in Builds :
                IF MallocFaults(heap, f.size, build)
                THEN ApiFault(t, { heap })
                ELSE /\ \E w \in WordsOf(heap, f.size) :
                           api_objs' = api_objs \cup { NewObj(heap, f.size, w) }
                     /\ api_next' = api_next + 1
                     /\ ApiFinish(t, { heap }, api_next)
                     /\ UNCHANGED api_freed
           ELSE LET o == ApiObj(f.ptr)
                    path == FreePath(f.route, o.word)
                    old_size == f.old_size
                IN  \E build \in Builds :
                    IF f.route = "bump" /\ BumpReallocAsserts(build, o.word)
                    THEN ApiFault(t, {})
                    ELSE IF f.size = 0
                    THEN /\ api_objs' = api_objs \ { o }
                         /\ api_freed' = api_freed \cup FreedRecord(o, f.route)
                         /\ ApiFinish(t, { path }, NULL_PTR)
                         /\ UNCHANGED api_next
                    ELSE IF ApiReallocShrink(old_size, f.size)
                    THEN /\ ApiFinish(t, {}, f.ptr)
                         /\ UNCHANGED <<api_objs, api_next, api_freed>>
                    ELSE /\ \E w \in WordsOf(heap, f.size) :
                               api_objs' = (api_objs \ { o })
                                           \cup { NewObj(heap, f.size, w) }
                         /\ api_next' = api_next + 1
                         /\ api_freed' = api_freed \cup FreedRecord(o, f.route)
                         /\ ApiFinish(t, { heap, path }, api_next)
    /\ UNCHANGED <<INNER_CALL, api_done, api_calls>>
    /\ ApiFrame

\* The end of a public call: the generic branch clears the flag it set; a
\* call that stopped at a panic unwinds past is_inner.set(false).
ApiReturn(t) ==
    /\ api_stack[t] # <<>>
    /\ ApiTop(t).done
    /\ LET f == ApiTop(t)
           flag == IF f.route = "generic" /\ ~f.fault THEN FALSE ELSE INNER_CALL[t]
       IN  /\ INNER_CALL' = [INNER_CALL EXCEPT ![t] = flag]
           /\ api_done' = [thread |-> t, fn |-> f.fn, size |-> f.size,
                           ptr |-> f.ptr, entry_flag |-> f.entry_flag,
                           exit_flag |-> flag, route |-> f.route,
                           served |-> f.served, ret |-> f.ret, fault |-> f.fault,
                           old_size |-> f.old_size]
    /\ api_stack' = [api_stack EXCEPT ![t] = SubSeq(@, 1, Len(@) - 1)]
    /\ UNCHANGED <<api_objs, api_next, api_freed, api_calls>>
    /\ ApiFrame

\* Drop for ThreadMeta sets the flag of the exiting thread and leaves it set;
\* the destructors that run after it still call the entry points.
ApiThreadExit(t) ==
    /\ api_stack[t] = <<>>
    /\ ~INNER_CALL[t]
    /\ INNER_CALL' = [INNER_CALL EXCEPT ![t] = TRUE]
    /\ UNCHANGED <<api_stack, api_objs, api_next, api_done, api_freed, api_calls>>
    /\ ApiFrame

\* An object whose leading word is written by make_bookmark.
ApiMakeBookmark(bookmark, is_bump) ==
    /\ api_calls < MaxApiCalls
    /\ api_calls' = api_calls + 1
    /\ api_objs' = api_objs \cup
           { [addr |-> api_next, heap |-> "made", size |-> bookmark,
              word |-> make_bookmark(bookmark, is_bump), made_bump |-> is_bump] }
    /\ api_next' = api_next + 1
    /\ UNCHANGED <<INNER_CALL, api_stack, api_done, api_freed>>
    /\ ApiFrame

ApiNext ==
    \/ \E t \in ApiThreads, size \in ApiSizes : ApiCall(t, "nu_malloc", size, NULL_PTR)
    \/ \E t \in ApiThreads, ptr \in ApiPtrs : ApiCall(t, "nu_free", 0, ptr)
    \/ \E t \in ApiThreads, size \in ApiSizes, ptr \in ApiPtrs :
          ApiCall(t, "nu_realloc", size, ptr)
    \/ \E t \in ApiThreads : ApiMalloc(t)
    \/ \E t \in ApiThreads : ApiFree(t)
    \/ \E t \in ApiThreads : ApiRealloc(t)
    \/ \E t \in ApiThreads : ApiReturn(t)
    \/ \E t \in ApiThreads : ApiThreadExit(t)
    \/ \E bookmark \in MadeBookmarks, is_bump \in BOOLEAN :
          ApiMakeBookmark(bookmark, is_bump)

(***************************************************************************)
(* Small heap: per-thread tiers over per-node memory.                      *)
(***************************************************************************)
\* Bounds of the small heap model.
NumNodes == 2
NumSmallThreads == 3
MaxSmallOps == 5

SYS_PAGE_SIZE == 4096

Nodes == 0 .. NumNodes - 1

UserThreads == 1 .. NumSmallThreads

\* RemoteNodeFree::new: the sentinel thread of a node.
Sentinel(n) == NumSmallThreads + 1 + n

SentinelThreads == { Sentinel(n) : n \in Nodes }

SmallThreads == UserThreads \cup SentinelThreads

\* current_numa() of a thread: user threads are spread over the nodes, a
\* sentinel is pinned to its node by set_node_affinity.
ThreadNode(t) == IF t \in UserThreads THEN t % NumNodes ELSE t - NumSmallThreads - 1

\* Request sizes: 9 and 10 share tier 3 (16 bytes), 2048 is tier 10 (two
\* objects to a page).
SmallSizes == { 9, 10, 2048 }

\* small_heap::size_class_index_from_size
SmallSizeClassIndex(size) ==
    LET log == log_2_of(size)
    IN  IF is_power_of_2(size) /\ log > 0 THEN log - 1 ELSE log

\* small_heap::size_classes: tier i has size 2 doubled i times.
SmallSizeClassSize(i) == Pow2(i + 1)

\* The tiers the request sizes use; the other tiers stay empty.
STiers == { SmallSizeClassIndex(size) : size \in SmallSizes }

\* small_heap::min_power_of_2
min_power_of_2(n) ==
    IF n > 0 /\ is_power_of_2(n) THEN n ELSE Pow2(log_2_of(n) + 1)

\* per_node_heap(): the system memory rounded to a power of two; 64 KiB here.
PerNodeHeap == min_power_of_2(Pow2(16))

\* total_heap() on a machine of num_nodes nodes
total_heap(num_nodes) == min_power_of_2(PerNodeHeap * num_nodes)

TOTAL_HEAP_SIZE == total_heap(NumNodes)

\* The address mmap returned for the whole heap.
HEAP_BASE == Pow2(20)

HEAP_UPPER_BOUND == HEAP_BASE + TOTAL_HEAP_SIZE

\* small_heap::node_shift_bits on a machine of num_nodes nodes
node_shift_bits(num_nodes) == log_2_of(total_heap(num_nodes)) - log_2_of(num_nodes)

NODE_SHIFT_BITS == node_shift_bits(NumNodes)

\* gen_numa_node_list: node_base = heap_base + (i << node_shift_bits)
node_base(num_nodes, i) == HEAP_BASE + i * Pow2(node_shift_bits(num_nodes))

NodeBase(i) == node_base(NumNodes, i)

\* small_heap::addr_numa_id: (addr - HEAP_BASE) >> NODE_SHIFT_BITS
AddrNumaId(num_nodes, addr) == (addr - HEAP_BASE) \div Pow2(node_shift_bits(num_nodes))

addr_numa_id(addr) == AddrNumaId(NumNodes, addr)

NoPage == [addr |-> 0, pos |-> 0]

NoObj == [addr |-> 0, tier |-> 0, tid |-> 0]

NoLoc == [addr |-> 0, tier |-> 0, size |-> 0, items |-> {}, list |-> <<>>,
          target |-> 0, obj |-> NoObj, stray |-> FALSE]

NoStray == [thread |-> 0, addr |-> 0, ret |-> "none", op |-> 0]

NoExp == [addr |-> 0, clean |-> FALSE]

NoAlloc == [thread |-> 0, tier |-> 0, size |-> 0, ret |-> 0, from |-> "none",
            expect |-> NoExp]

SmallInit ==
    /\ alloc_pos = [n \in Nodes |-> NodeBase(n)]
    /\ common_free = [n \in Nodes |-> [i \in STiers |-> <<>>]]
    /\ common_reserved = [n \in Nodes |-> [i \in STiers |-> <<>>]]
    /\ pending_free = [n \in Nodes |-> <<>>]
    /\ thread_free = [n \in Nodes |-> {}]
    /\ objects = [n \in Nodes |-> <<>>]
    /\ producers = [n \in Nodes |-> {}]
    /\ cache = [t \in SmallThreads |-> {}]
    /\ t_free = [t \in SmallThreads |-> [i \in STiers |-> <<>>]]
    /\ reserved = [t \in SmallThreads |-> [i \in STiers |-> NoPage]]
    /\ tstate = [t \in SmallThreads |-> "new"]
    /\ spc = [t \in SmallThreads |-> "idle"]
    /\ sloc = [t \in SmallThreads |-> NoLoc]
    /\ sops = 0
    /\ slive = {}
    /\ sdup = {}
    /\ sexp = [t \in SmallThreads |-> [i \in STiers |-> NoExp]]
    /\ slast = NoAlloc
    /\ sapplied = {}
    /\ sowed = [t \in SmallThreads |-> {}]
    /\ sowed_pages = [t \in SmallThreads |-> {}]
    /\ sstray = NoStray

\* lflist push and pop work at the newest end.
ListPushBack(l, a) == Append(l, a)

ListPush(l, a) == <<a>> \o l

\* THREAD_META.with on a thread that has no ThreadMeta yet runs
\* ThreadMeta::new: it registers a producer and the thread's free lists.
ProducersWith(t) ==
    [producers EXCEPT ![ThreadNode(t)] = IF tstate[t] = "new" THEN @ \cup { t } ELSE @]

ThreadFreeWith(t) ==
    [thread_free EXCEPT ![ThreadNode(t)] = IF tstate[t] = "new" THEN @ \cup { t } ELSE @]

TStateWith(t) == [tstate EXCEPT ![t] = IF @ = "new" THEN "alive" ELSE @]

WithThreadMeta(t) ==
    /\ producers' = ProducersWith(t)
    /\ thread_free' = ThreadFreeWith(t)
    /\ tstate' = TStateWith(t)

\* ReservedPage::take
ReservedTakeNoAdvance(r, size) ==
    LET some == size < SYS_PAGE_SIZE /\ r.addr # 0 /\ r.pos - r.addr < SYS_PAGE_SIZE
    IN  [some |-> some, ret |-> r.pos, page |-> r]

ReservedTake(r, size) ==
    LET some == size < SYS_PAGE_SIZE /\ r.addr # 0 /\ r.pos - r.addr < SYS_PAGE_SIZE
    IN  [some |-> some, ret |-> r.pos,
         page |-> IF some THEN [addr |-> r.addr, pos |-> r.pos + size] ELSE r]

\* The end of allocate: meta.objects.insert puts the entry in the thread's
\* producer cache, and the address is returned.
AllocReturn(t, tier, size, addr, from) ==
    /\ cache' = [cache EXCEPT ![t] = @ \cup { [addr |-> addr, tier |-> tier, tid |-> t] }]
    /\ slive' = slive \cup { [addr |-> addr, tier |-> tier, tid |-> t] }
    /\ sdup' = IF \E o \in slive : o.addr = addr THEN sdup \cup { addr } ELSE sdup
    /\ slast' = [thread |-> t, tier |-> tier, size |-> size, ret |-> addr,
                 from |-> from, expect |-> sexp[t][tier]]
    /\ sexp' = [sexp EXCEPT ![t][tier] = NoExp]
    /\ sapplied' = sapplied \ { addr }
    /\ sowed' = [u \in SmallThreads |-> { r \in sowed[u] : r.addr # addr }]
    /\ spc' = [spc EXCEPT ![t] = "idle"]
    /\ sloc' = [sloc EXCEPT ![t] = NoLoc]

\* allocate: the thread's own free list, then its reserved page.
SmallAllocate(t, size) ==
    /\ spc[t] = "idle"
    /\ tstate[t] \in { "new", "alive" }
    /\ sops < MaxSmallOps
    /\ sops' = sops + 1
    /\ WithThreadMeta(t)
    /\ LET tier == SmallSizeClassIndex(size)
           taken == ReservedTake(reserved[t][tier], SmallSizeClassSize(tier))
       IN  IF t_free[t][tier] # <<>>
           THEN /\ t_free' = [t_free EXCEPT ![t][tier] = Tail(@)]
                /\ AllocReturn(t, tier, size, Head(t_free[t][tier]), "free_list")
                /\ UNCHANGED reserved
           ELSE IF taken.some
           THEN /\ reserved' = [reserved EXCEPT ![t][tier] = taken.page]
                /\ AllocReturn(t, tier, size, taken.ret, "reserved")
                /\ UNCHANGED t_free
           ELSE /\ spc' = [spc EXCEPT ![t] = "alloc_common"]
                /\ sloc' = [sloc EXCEPT ![t] = [NoLoc EXCEPT !.tier = tier, !.size = size]]
                /\ UNCHANGED <<t_free, reserved, cache, slive, sdup, slast, sexp,
                               sapplied, sowed>>
    /\ UNCHANGED <<alloc_pos, common_free, common_reserved, pending_free, objects,
                   sowed_pages>>
    /\ UNCHANGED sstray
    /\ SmallFrame

\* allocate: the node's common free list.
SmallAllocCommon(t) ==
    /\ spc[t] = "alloc_common"
    /\ LET n == ThreadNode(t)
           tier == sloc[t].tier
       IN  IF common_free[n][tier] # <<>>
           THEN /\ common_free' = [common_free EXCEPT ![n][tier] = Tail(@)]
                /\ AllocReturn(t, tier, sloc[t].size, Head(common_free[n][tier]), "common")
           ELSE /\ spc' = [spc EXCEPT ![t] = "alloc_page"]
                /\ UNCHANGED <<common_free, cache, slive, sdup, slast, sexp, sapplied,
                               sowed, sloc>>
    /\ UNCHANGED <<alloc_pos, common_reserved, pending_free, thread_free, objects,
                   producers, t_free, reserved, tstate, sops, sowed_pages>>
    /\ UNCHANGED sstray
    /\ SmallFrame

\* ReservedPage::allocate_from_common
SmallAllocPage(t) ==
    /\ spc[t] = "alloc_page"
    /\ LET n == ThreadNode(t)
           tier == sloc[t].tier
           size == SmallSizeClassSize(tier)
       IN  IF size >= SYS_PAGE_SIZE
           THEN /\ alloc_pos' = [alloc_pos EXCEPT ![n] = @ + size]
                /\ AllocReturn(t, tier, sloc[t].size, alloc_pos[n], "node")
                /\ UNCHANGED <<common_reserved, reserved, sowed_pages>>
           ELSE IF common_reserved[n][tier] # <<>>
           THEN LET page == Head(common_reserved[n][tier])
                IN  /\ common_reserved' = [common_reserved EXCEPT ![n][tier] = Tail(@)]
                    /\ reserved' = [reserved EXCEPT ![t][tier] =
                                       [addr |-> page.addr, pos |-> page.pos + size]]
                    /\ sowed_pages' = [u \in SmallThreads |->
                                          { r \in sowed_pages[u] :
                                               r # [tier |-> tier, page |-> page] }]
                    /\ AllocReturn(t, tier, sloc[t].size, page.pos, "page")
                    /\ UNCHANGED alloc_pos
           ELSE /\ alloc_pos' = [alloc_pos EXCEPT ![n] = @ + SYS_PAGE_SIZE]
                /\ reserved' = [reserved EXCEPT ![t][tier] =
                                   [addr |-> alloc_pos[n], pos |-> alloc_pos[n] + size]]
                /\ AllocReturn(t, tier, sloc[t].size, alloc_pos[n], "node")
                /\ UNCHANGED <<common_reserved, sowed_pages>>
    /\ UNCHANGED <<common_free, pending_free, thread_free, objects, producers,
                   t_free, tstate, sops>>
    /\ UNCHANGED sstray
    /\ SmallFrame

\* free, up to the first half of node.objects.refresh(): the caches of the
\* node's registered producers are emptied into the caller's hands.
FreeBegin(t, addr, obj) ==
    LET node_id == addr_numa_id(addr)
        drained == ProducersWith(t)[node_id]
    IN  /\ WithThreadMeta(t)
        /\ cache' = [p \in SmallThreads |-> IF p \in drained THEN {} ELSE cache[p]]
        /\ sloc' = [sloc EXCEPT ![t] =
                       [NoLoc EXCEPT !.addr = addr, !.obj = obj,
                                     !.items = UNION { cache[p] : p \in drained }]]
        /\ spc' = [spc EXCEPT ![t] = "free_insert"]

\* free(ptr) called by a user thread on an address allocate returned.
SmallFree(t, obj) ==
    /\ spc[t] = "idle"
    /\ tstate[t] \in { "new", "alive" }
    /\ sops < MaxSmallOps
    /\ sops' = sops + 1
    /\ slive' = slive \ { obj }
    /\ IF obj.addr < HEAP_BASE \/ obj.addr > HEAP_UPPER_BOUND
       THEN UNCHANGED <<producers, thread_free, tstate, cache, sloc, spc>>
       ELSE FreeBegin(t, obj.addr, obj)
    /\ UNCHANGED <<alloc_pos, common_free, common_reserved, pending_free, objects,
                   t_free, reserved, sdup, sexp, slast, sapplied, sowed, sowed_pages>>
    /\ UNCHANGED sstray
    /\ SmallFrame

\* Addresses allocate never returns: below the heap, inside node 0 but off
\* every object boundary, the upper bound itself, and above the upper bound.
StrayAddrs == { HEAP_BASE - 16, NodeBase(0) + 8, HEAP_UPPER_BOUND, HEAP_UPPER_BOUND + 16 }

\* What PER_NODE_META[node_id] gives for node_id past the last node: the
\* index is not checked in a release build, the read is undefined, and a
\* debug build stops at the assertion.
BeyondNodesOutcomes == { "fault", "false", "true" }

\* free(ptr) called by a user thread on an address allocate never returned.
SmallFreeStray(t, addr) ==
    /\ spc[t] = "idle"
    /\ tstate[t] \in { "new", "alive" }
    /\ sops < MaxSmallOps
    /\ sops' = sops + 1
    /\ IF addr < HEAP_BASE \/ addr > HEAP_UPPER_BOUND
       THEN /\ sstray' = [thread |-> t, addr |-> addr, ret |-> "false", op |-> sops']
            /\ UNCHANGED <<producers, thread_free, tstate, cache, sloc, spc>>
       ELSE IF addr_numa_id(addr) \notin Nodes
       THEN /\ \E ret \in BeyondNodesOutcomes :
                  sstray' = [thread |-> t, addr |-> addr, ret |-> ret, op |-> sops']
            /\ WithThreadMeta(t)
            /\ UNCHANGED <<cache, sloc, spc>>
       ELSE /\ WithThreadMeta(t)
            /\ LET drained == ProducersWith(t)[addr_numa_id(addr)]
               IN  /\ cache' = [p \in SmallThreads |->
                                   IF p \in drained THEN {} ELSE cache[p]]
                   /\ sloc' = [sloc EXCEPT ![t] =
                          [NoLoc EXCEPT !.addr = addr, !.stray = TRUE,
                                        !.items = UNION { cache[p] : p \in drained }]]
            /\ spc' = [spc EXCEPT ![t] = "free_insert"]
            /\ UNCHANGED sstray
    /\ UNCHANGED <<alloc_pos, common_free, common_reserved, pending_free, objects,
                   t_free, reserved, slive, sdup, sexp, slast, sapplied, sowed,
                   sowed_pages>>
    /\ SmallFrame

\* The sentinel thread of node n: pop a pending address and free it.
SentinelPop(n) ==
    /\ spc[Sentinel(n)] = "idle"
    /\ pending_free[n] # <<>>
    /\ pending_free' = [pending_free EXCEPT ![n] = Tail(@)]
    /\ FreeBegin(Sentinel(n), Head(pending_free[n]), NoObj)
    /\ UNCHANGED <<alloc_pos, common_free, common_reserved, objects, t_free, reserved,
                   sops, slive, sdup, sexp, slast, sapplied, sowed, sowed_pages>>
    /\ UNCHANGED sstray
    /\ SmallFrame

\* The index after map.insert of every drained entry.
IndexInsert(index, items) ==
    [a \in DOMAIN index \cup { i.addr : i \in items } |->
        IF \E i \in items : i.addr = a
        THEN LET i == CHOOSE i \in items : i.addr = a
             IN  [tier |-> i.tier, tid |-> i.tid]
        ELSE index[a]]

\* The branch of free on the owning node against the caller's node.
IsRemoteNever(node_id, current_node) == FALSE

IsRemote(node_id, current_node) == node_id # current_node

\* free returns without a push: the own address it was given stays unpushed.
FreeReturnFalse(t) ==
    /\ spc' = [spc EXCEPT ![t] = "idle"]
    /\ sloc' = [sloc EXCEPT ![t] = NoLoc]
    /\ sexp' = IF sloc[t].obj.tid = t
               THEN [sexp EXCEPT ![t][sloc[t].obj.tier] =
                        [addr |-> sloc[t].addr, clean |-> FALSE]]
               ELSE sexp
    /\ sstray' = IF sloc[t].stray
                 THEN [thread |-> t, addr |-> sloc[t].addr, ret |-> "false", op |-> sops]
                 ELSE sstray

\* free: the second half of refresh, then the lookups that pick the list.
SmallFreeInsert(t) ==
    /\ spc[t] = "free_insert"
    /\ LET addr == sloc[t].addr
           node_id == addr_numa_id(addr)
           index == IndexInsert(objects[node_id], sloc[t].items)
       IN  /\ objects' = [objects EXCEPT ![node_id] = index]
           /\ IF addr \notin DOMAIN index
              THEN FreeReturnFalse(t)
              ELSE /\ spc' = [spc EXCEPT ![t] = "free_push"]
                   /\ sloc' = [sloc EXCEPT ![t] =
                          [@ EXCEPT !.items = {},
                                    !.tier = index[addr].tier,
                                    !.target =
                                        IF IsRemote(node_id, ThreadNode(t)) THEN 0
                                        ELSE IF index[addr].tid = t THEN t
                                        ELSE IF index[addr].tid \in thread_free[node_id]
                                             THEN index[addr].tid
                                        ELSE t]]
                   /\ UNCHANGED <<sexp, sstray>>
    /\ UNCHANGED <<alloc_pos, common_free, common_reserved, pending_free, thread_free,
                   producers, cache, t_free, reserved, tstate, sops, slive, sdup,
                   slast, sapplied, sowed, sowed_pages>>
    /\ SmallFrame

\* free: the push, onto the owning node's pending queue or onto the free list
\* picked by the lookups.
SmallFreePush(t) ==
    /\ spc[t] = "free_push"
    /\ LET addr == sloc[t].addr
           tier == sloc[t].tier
           u == sloc[t].target
       IN  IF u = 0
           THEN /\ pending_free' = [pending_free EXCEPT ![addr_numa_id(addr)] =
                                       ListPush(@, addr)]
                /\ UNCHANGED <<t_free, sexp, sowed, sapplied>>
           ELSE /\ t_free' = [t_free EXCEPT ![u][tier] = ListPush(@, addr)]
                /\ sexp' = IF u = t /\ sloc[t].obj.tid = t
                           THEN [sexp EXCEPT ![t][tier] =
                                    [addr |-> addr, clean |-> TRUE]]
                           ELSE [sexp EXCEPT ![u][tier].clean = FALSE]
                /\ sowed' = IF tstate[u] # "exited"
                            THEN [sowed EXCEPT ![u] =
                                     @ \cup { [addr |-> addr, tier |-> tier] }]
                            ELSE sowed
                /\ sapplied' = IF t \in SentinelThreads
                               THEN sapplied \cup { addr } ELSE sapplied
                /\ UNCHANGED pending_free
    /\ spc' = [spc EXCEPT ![t] = "idle"]
    /\ sloc' = [sloc EXCEPT ![t] = NoLoc]
    /\ sstray' = IF sloc[t].stray
                 THEN [thread |-> t, addr |-> sloc[t].addr, ret |-> "true", op |-> sops]
                 ELSE sstray
    /\ UNCHANGED <<alloc_pos, common_free, common_reserved, thread_free, objects,
                   producers, cache, reserved, tstate, sops, slive, sdup, slast,
                   sowed_pages>>
    /\ SmallFrame

\* Drop for ThreadMeta: remove_producer and thread_free.remove.
SmallThreadExit(t) ==
    /\ spc[t] = "idle"
    /\ tstate[t] = "alive"
    /\ sops < MaxSmallOps
    /\ sops' = sops + 1
    /\ producers' = [producers EXCEPT ![ThreadNode(t)] = @ \ { t }]
    /\ thread_free' = [thread_free EXCEPT ![ThreadNode(t)] = @ \ { t }]
    /\ tstate' = [tstate EXCEPT ![t] = "exiting"]
    /\ spc' = [spc EXCEPT ![t] = "drop_tier"]
    /\ sloc' = [sloc EXCEPT ![t] =
                   [NoLoc EXCEPT !.tier = CHOOSE i \in STiers : \A j \in STiers : i <= j]]
    /\ UNCHANGED <<alloc_pos, common_free, common_reserved, pending_free, objects,
                   cache, t_free, reserved, slive, sdup, sexp, slast, sapplied,
                   sowed, sowed_pages>>
    /\ UNCHANGED sstray
    /\ SmallFrame

\* The loop of Drop moves on to the next tier, or the drop is over.
DropAdvance(t, list) ==
    LET i == sloc[t].tier
        later == { j \in STiers : j > i }
    IN  IF list # <<>>
        THEN /\ spc' = [spc EXCEPT ![t] = "drop_link"]
             /\ sloc' = [sloc EXCEPT ![t].list = list]
             /\ UNCHANGED tstate
        ELSE IF later # {}
        THEN /\ spc' = [spc EXCEPT ![t] = "drop_tier"]
             /\ sloc' = [sloc EXCEPT ![t] =
                            [NoLoc EXCEPT !.tier = CHOOSE j \in later :
                                                      \A k \in later : j <= k]]
             /\ UNCHANGED tstate
        ELSE /\ spc' = [spc EXCEPT ![t] = "idle"]
             /\ sloc' = [sloc EXCEPT ![t] = NoLoc]
             /\ tstate' = [tstate EXCEPT ![t] = "exited"]

\* Drop, one tier: the reserved page goes to the node's queue when it has
\* room left, and prepend_with takes the whole free list (head and count
\* swapped out) when its count is not zero.
SmallDropTier(t) ==
    /\ spc[t] = "drop_tier"
    /\ LET n == ThreadNode(t)
           i == sloc[t].tier
           page == reserved[t][i]
           hand == page.addr > 0 /\ page.pos < page.addr + SYS_PAGE_SIZE
       IN  /\ common_reserved' = IF hand
                                 THEN [common_reserved EXCEPT ![n][i] = Append(@, page)]
                                 ELSE common_reserved
           /\ sowed_pages' = IF hand
                             THEN [sowed_pages EXCEPT ![t] =
                                      @ \cup { [tier |-> i, page |-> page] }]
                             ELSE sowed_pages
           /\ t_free' = [t_free EXCEPT ![t][i] = <<>>]
           /\ DropAdvance(t, t_free[t][i])
    /\ UNCHANGED <<alloc_pos, common_free, pending_free, thread_free, objects,
                   producers, cache, reserved, sops, slive, sdup, sexp, slast,
                   sapplied, sowed>>
    /\ UNCHANGED sstray
    /\ SmallFrame

\* prepend_with, second half: the taken buffers become the head of the
\* node's common list, the old head is linked behind them.
SmallDropLink(t) ==
    /\ spc[t] = "drop_link"
    /\ common_free' = [common_free EXCEPT ![ThreadNode(t)][sloc[t].tier] =
                          sloc[t].list \o @]
    /\ DropAdvance(t, <<>>)
    /\ UNCHANGED <<alloc_pos, common_reserved, pending_free, thread_free, objects,
                   producers, cache, t_free, reserved, sops, slive, sdup, sexp,
                   slast, sapplied, sowed, sowed_pages>>
    /\ UNCHANGED sstray
    /\ SmallFrame

SmallNext ==
    \/ \E t \in UserThreads, size \in SmallSizes : SmallAllocate(t, size)
    \/ \E t \in UserThreads : SmallAllocCommon(t)
    \/ \E t \in UserThreads : SmallAllocPage(t)
    \/ \E t \in UserThreads, obj \in slive : SmallFree(t, obj)
    \/ \E n \in Nodes : SentinelPop(n)
    \/ \E t \in SmallThreads : SmallFreeInsert(t)
    \/ \E t \in SmallThreads : SmallFreePush(t)
    \/ \E t \in UserThreads : SmallThreadExit(t)
    \/ \E t \in UserThreads : SmallDropTier(t)
    \/ \E t \in UserThreads : SmallDropLink(t)

\* Bound of the stray-free runs: calls started in one run.
MaxStrayOps == 4

SmallStrayNext ==
    \/ \E t \in UserThreads, size \in SmallSizes :
          sops < MaxStrayOps /\ SmallAllocate(t, size)
    \/ \E t \in UserThreads : SmallAllocCommon(t)
    \/ \E t \in UserThreads : SmallAllocPage(t)
    \/ \E t \in UserThreads, obj \in slive :
          sops < MaxStrayOps /\ SmallFree(t, obj)
    \/ \E t \in UserThreads, addr \in StrayAddrs :
          sops < MaxStrayOps /\ SmallFreeStray(t, addr)
    \/ \E n \in Nodes : SentinelPop(n)
    \/ \E t \in SmallThreads : SmallFreeInsert(t)
    \/ \E t \in SmallThreads : SmallFreePush(t)
    \/ \E t \in UserThreads : sops < MaxStrayOps /\ SmallThreadExit(t)
    \/ \E t \in UserThreads : SmallDropTier(t)
    \/ \E t \in UserThreads : SmallDropLink(t)

(***************************************************************************)
(* Size classes.                                                           *)
(***************************************************************************)
RECURSIVE SizeClassesFrom(_, _)
\* size_classes: tier starts at 2 and is doubled after each element.
SizeClassesFrom(tier, n) ==
    IF n = 0 THEN <<>> ELSE <<tier>> \o SizeClassesFrom(tier * 2, n - 1)

size_classes == SizeClassesFrom(2, NUM_SIZE_CLASS)

\* The request sizes of the small heap: 1 .. 2^16.
ScSizes == 1 .. Pow2(NUM_SIZE_CLASS)

\* A returned tier; underflow is set when the usize subtraction log - 1 ran
\* with log = 0: a debug build panics there, a release build returns
\* usize::MAX, which lies outside the integers of this model.
ScRet(index, underflow) == [index |-> index, underflow |-> underflow]

NoScRet == ScRet(0, FALSE)

\* generic_heap::size_class_index_from_size
GenericSizeClassIndex(size) == ScRet(size_class_index_from_size(size), FALSE)

\* small_heap::size_class_index_from_size
SmallSizeClassIndexRet(size) == ScRet(SmallSizeClassIndex(size), FALSE)

\* bibop_heap::size_class_index_from_size
BibopSizeClassIndex(size) ==
    LET log == log_2_of(size)
    IN  IF is_power_of_2(size)
        THEN IF log = 0 THEN ScRet(0, TRUE) ELSE ScRet(log - 1, FALSE)
        ELSE ScRet(log, FALSE)

SizeClassIdle ==
    /\ sc_size = 0
    /\ sc_fn = "none"
    /\ sc_ret = NoScRet

SizeClassInit ==
    /\ sc_size \in ScSizes
    /\ sc_fn = "none"
    /\ sc_ret = NoScRet

ScCall(fn, ret) ==
    /\ sc_fn = "none"
    /\ sc_fn' = fn
    /\ sc_ret' = ret
    /\ UNCHANGED sc_size
    /\ SizeClassFrame

ScCallGeneric == ScCall("generic_heap", GenericSizeClassIndex(sc_size))

ScCallSmall == ScCall("small_heap", SmallSizeClassIndexRet(sc_size))

ScCallBibop == ScCall("bibop_heap", BibopSizeClassIndex(sc_size))

SizeClassNext ==
    \/ ScCallGeneric
    \/ ScCallSmall
    \/ ScCallBibop

(***************************************************************************)
(* nu_calloc, in api.rs and in lib.rs.                                     *)
(***************************************************************************)
\* A usize as two halves, hi * 2^32 + lo.
Usize(hi, lo) == [hi |-> hi, lo |-> lo]

UsizeZero == Usize(0, 0)

\* nmemb * size on usize in a release build: the product modulo 2^64, the
\* term x.hi * y.hi * 2^64 is dropped.  The halves of the arguments used
\* here stay below 2^15, so no half carries into the next.
WrappingMul(x, y) == Usize(x.hi * y.lo + x.lo * y.hi, x.lo * y.lo)

\* The product does not fit a usize: a debug build panics at the
\* multiplication.
MulOverflows(x, y) == x.hi * y.hi > 0

\* Arguments: 0, 1, 4, 2^32, 2^32 + 1.
CallocArgs == { UsizeZero, Usize(0, 1), Usize(0, 4), Usize(1, 0), Usize(1, 1) }

CallocFiles == { "api.rs", "lib.rs" }

NoBlock == [size |-> UsizeZero, zeroed |-> UsizeZero]

NoCallocRet == [ptr |-> NULL_PTR, fault |-> FALSE, null_writes |-> UsizeZero]

CallocIdle ==
    /\ cal_args = [nmemb |-> UsizeZero, size |-> UsizeZero, file |-> "none"]
    /\ cal_pc = "done"
    /\ cal_total = UsizeZero
    /\ cal_block = NoBlock
    /\ cal_ret = NoCallocRet

CallocInit ==
    /\ cal_args \in [nmemb : CallocArgs, size : CallocArgs, file : CallocFiles]
    /\ cal_pc = "mul"
    /\ cal_total = UsizeZero
    /\ cal_block = NoBlock
    /\ cal_ret = NoCallocRet

\* let total_size = nmemb * size;
CallocMul ==
    /\ cal_pc = "mul"
    /\ \E build \in Builds :
          IF build = "debug" /\ MulOverflows(cal_args.nmemb, cal_args.size)
          THEN /\ cal_ret' = [cal_ret EXCEPT !.fault = TRUE]
               /\ cal_pc' = "done"
               /\ UNCHANGED cal_total
          ELSE /\ cal_total' = WrappingMul(cal_args.nmemb, cal_args.size)
               /\ cal_pc' = "malloc"
               /\ UNCHANGED cal_ret
    /\ UNCHANGED <<cal_args, cal_block>>
    /\ CallocFrame

\* let ptr = nu_malloc(total_size); api.rs returns null for size 0 and a
\* block with whatever bytes it held otherwise, lib.rs is unimplemented!().
CallocMalloc ==
    /\ cal_pc = "malloc"
    /\ IF cal_args.file = "lib.rs"
       THEN /\ cal_ret' = [cal_ret EXCEPT !.fault = TRUE]
            /\ cal_pc' = "done"
            /\ UNCHANGED cal_block
       ELSE IF cal_total = UsizeZero
       THEN /\ cal_pc' = "memset"
            /\ UNCHANGED <<cal_ret, cal_block>>
       ELSE /\ cal_ret' = [cal_ret EXCEPT !.ptr = 1]
            /\ cal_block' = [size |-> cal_total, zeroed |-> UsizeZero]
            /\ cal_pc' = "memset"
    /\ UNCHANGED <<cal_args, cal_total>>
    /\ CallocFrame

\* The test in front of memset: ptr != NULL_PTR in api.rs, ptr == NULL_PTR
\* in lib.rs.
CallocFills(file, ptr) ==
    IF file = "api.rs" THEN ptr # NULL_PTR ELSE ptr = NULL_PTR

\* memset(ptr, 0, total_size) under the test, then the return of ptr.
CallocMemset ==
    /\ cal_pc = "memset"
    /\ IF CallocFills(cal_args.file, cal_ret.ptr)
       THEN IF cal_ret.ptr = NULL_PTR
            THEN /\ cal_ret' = [cal_ret EXCEPT !.null_writes = cal_total]
                 /\ UNCHANGED cal_block
            ELSE /\ cal_block' = [cal_block EXCEPT !.zeroed = cal_total]
                 /\ UNCHANGED cal_ret
       ELSE UNCHANGED <<cal_ret, cal_block>>
    /\ cal_pc' = "done"
    /\ UNCHANGED <<cal_args, cal_total>>
    /\ CallocFrame

CallocNext ==
    \/ CallocMul
    \/ CallocMalloc
    \/ CallocMemset

(***************************************************************************)
(* Paged list (collections/lflist.rs): List, BufferMeta, push / pop /      *)
(* drop_out_all.  Every action is one access to shared memory, with the    *)
(* thread-private work around it.                                          *)
(***************************************************************************)
\* Bounds of the paged list model.
NumListThreads == 2
MaxListOps == 4
MaxSeqOps == 8
MaxBuffers == 4

EMPTY_SLOT == 0

SENTINEL_SLOT == 1

\* null_mut() as a buffer pointer; buffers are named by their position in pl_bufs.
NullBuffer == 0

ListThreads == 1 .. NumListThreads

\* The one thread of the sequential specification.
SeqThreads == { 1 }

\* buffer_cap handed to List::new: concurrent runs, sequential runs.
ListCaps == { 1, 2 }

SeqCaps == { 2, 4 }

\* BufferMeta::new: head 0, no next, one reference, zeroed slots
\* (alloc_mem returns zeroed memory).
NewBufferUnlinked(buffer_cap, next) ==
    [head |-> 0, next |-> NullBuffer, refs |-> 1, freed |-> FALSE,
     slots |-> [i \in 0 .. buffer_cap - 1 |-> EMPTY_SLOT]]

NewBuffer(buffer_cap, next) ==
    [head |-> 0, next |-> next, refs |-> 1, freed |-> FALSE,
     slots |-> [i \in 0 .. buffer_cap - 1 |-> EMPTY_SLOT]]

\* Locals of a thread outside any call.
ListIdleLoc ==
    [call |-> "none", pc |-> "idle", flag |-> 0, head_ptr |-> NullBuffer,
     slot |-> 0, next |-> NullBuffer, seen |-> 0, res |-> 0, repush |-> <<>>,
     left |-> 0, counter |-> 0]

\* List::new.
ListInit(caps) ==
    /\ \E buffer_cap \in caps :
          /\ pl_list = [head |-> 1, count |-> 0, buffer_cap |-> buffer_cap]
          /\ pl_bufs = << NewBuffer(buffer_cap, NullBuffer) >>
    /\ pl_loc = [t \in ListThreads |-> ListIdleLoc]
    /\ pl_log = <<>>
    /\ pl_phase = "run"
    /\ pl_ops = 0

\* The values a call of push is given: flags other than EMPTY_SLOT and
\* SENTINEL_SLOT, each pushed once.
NextFlag == 2 + Cardinality({ i \in 1 .. Len(pl_log) : pl_log[i].op = "push" })

Log(op, v) == pl_log' = Append(pl_log, [op |-> op, v |-> v])

SetLoc(t, fields) ==
    pl_loc' = [pl_loc EXCEPT ![t] = [f \in DOMAIN ListIdleLoc |->
                  IF f \in DOMAIN fields THEN fields[f] ELSE pl_loc[t][f]]]

\* BufferMeta::unref: the last reference frees the buffer (gc).
Unref(bufs, b) ==
    IF bufs[b].freed THEN bufs
    ELSE [bufs EXCEPT ![b].refs = @ - 1, ![b].freed = (bufs[b].refs = 1)]

\* BufferMeta::borrow.
Borrow(bufs, b) ==
    IF bufs[b].freed THEN bufs ELSE [bufs EXCEPT ![b].refs = @ + 1]

\* A buffer that was deallocated is read and written all the same by a thread
\* that loaded its address before: the access is undefined, it faults or
\* finds the memory as it was left.
FreedOutcomes == { "fault", "stale" }

RECURSIVE LiveFlagsFrom(_, _, _)
\* BufferMeta::flush_buffer: the flags of slots i .. bound - 1 that are
\* neither EMPTY_SLOT nor SENTINEL_SLOT, in slot order.
LiveFlagsFirst(buf, i, bound) ==
    IF i >= bound THEN <<>> ELSE << buf.slots[i] >>

LiveFlagsFrom(buf, i, bound) ==
    IF i >= bound THEN <<>>
    ELSE (IF buf.slots[i] # EMPTY_SLOT /\ buf.slots[i] # SENTINEL_SLOT
          THEN << buf.slots[i] >> ELSE <<>>)
         \o LiveFlagsFrom(buf, i + 1, bound)

\* BufferMeta::drop_out once no other reference is held: flush_buffer, then
\* the two unref that free the buffer.
DropOut(bufs, b) ==
    [bufs EXCEPT ![b].head = 0, ![b].refs = 0, ![b].freed = TRUE]

Fault(t) == SetLoc(t, [pc |-> "fault"])

\* ---- push -------------------------------------------------------------
\* List::push is called.
PagedListPush(t, max) ==
    /\ pl_phase = "run" /\ pl_ops < max
    /\ pl_loc[t].pc = "idle"
    /\ pl_ops' = pl_ops + 1
    /\ SetLoc(t, [call |-> "push", pc |-> "push_load_head", flag |-> NextFlag])
    /\ Log("push", NextFlag)
    /\ UNCHANGED <<pl_list, pl_bufs, pl_phase>>
    /\ ListFrame

\* do_push: self.head.load.
PushLoadHead(t) ==
    /\ pl_loc[t].pc = "push_load_head"
    /\ SetLoc(t, [pc |-> "push_borrow", head_ptr |-> pl_list.head])
    /\ UNCHANGED <<pl_list, pl_bufs, pl_log, pl_phase, pl_ops>>
    /\ ListFrame

\* do_push: BufferMeta::borrow(head_ptr) and page.head.load.
PushBorrow(t) ==
    /\ pl_loc[t].pc = "push_borrow"
    /\ LET b == pl_loc[t].head_ptr
           slot_pos == pl_bufs[b].head
           go == /\ pl_bufs' = Borrow(pl_bufs, b)
                 /\ SetLoc(t, [slot |-> slot_pos,
                               pc |-> IF slot_pos + 1 > pl_list.buffer_cap
                                      THEN "push_new" ELSE "push_cas_slot"])
       IN  IF pl_bufs[b].freed
           THEN \E outcome \in FreedOutcomes :
                   IF outcome = "fault"
                   THEN Fault(t) /\ UNCHANGED pl_bufs
                   ELSE go
           ELSE go
    /\ UNCHANGED <<pl_list, pl_log, pl_phase, pl_ops>>
    /\ ListFrame

\* do_push, buffer overflow: a new buffer linked to the head, installed by
\* compare_and_swap on the list head or released again.
PushNewBuffer(t) ==
    /\ pl_loc[t].pc = "push_new"
    /\ Len(pl_bufs) < MaxBuffers
    /\ IF pl_list.head = pl_loc[t].head_ptr
       THEN /\ pl_bufs' = Append(pl_bufs,
                                 NewBuffer(pl_list.buffer_cap, pl_loc[t].head_ptr))
            /\ pl_list' = [pl_list EXCEPT !.head = Len(pl_bufs) + 1]
       ELSE UNCHANGED <<pl_list, pl_bufs>>
    /\ SetLoc(t, [pc |-> "push_exchange"])
    /\ UNCHANGED <<pl_log, pl_phase, pl_ops>>
    /\ ListFrame

\* do_push: compare_and_swap of page.head from slot_pos to next_pos.
PushCasSlot(t) ==
    /\ pl_loc[t].pc = "push_cas_slot"
    /\ LET b == pl_loc[t].head_ptr
       IN  IF pl_bufs[b].head = pl_loc[t].slot
           THEN /\ pl_bufs' = [pl_bufs EXCEPT ![b].head = pl_loc[t].slot + 1]
                /\ SetLoc(t, [pc |-> "push_write"])
           ELSE /\ SetLoc(t, [pc |-> "push_exchange"])
                /\ UNCHANGED pl_bufs
    /\ UNCHANGED <<pl_list, pl_log, pl_phase, pl_ops>>
    /\ ListFrame

\* Where do_push returns to: push, or the flush inside pop.
AfterDoPush(t) == IF pl_loc[t].call = "push" THEN "push_count" ELSE "pop_repush"

\* do_push: atomic_cxchg of the slot from EMPTY_SLOT to the flag, the
\* assert_eq! on what it found, and the return.
PushWrite(t) ==
    /\ pl_loc[t].pc = "push_write"
    /\ LET b == pl_loc[t].head_ptr
           i == pl_loc[t].slot
       IN  IF pl_bufs[b].slots[i] = EMPTY_SLOT
           THEN /\ pl_bufs' = Unref([pl_bufs EXCEPT ![b].slots[i] = pl_loc[t].flag], b)
                /\ SetLoc(t, [pc |-> AfterDoPush(t)])
           ELSE Fault(t) /\ UNCHANGED pl_bufs
    /\ UNCHANGED <<pl_list, pl_log, pl_phase, pl_ops>>
    /\ ListFrame

\* push: count.fetch_add(1) after do_push.
PushCount(t) ==
    /\ pl_loc[t].pc = "push_count"
    /\ pl_list' = [pl_list EXCEPT !.count = @ + 1]
    /\ pl_loc' = [pl_loc EXCEPT ![t] = ListIdleLoc]
    /\ UNCHANGED <<pl_bufs, pl_log, pl_phase, pl_ops>>
    /\ ListFrame

\* ---- exchange ---------------------------------------------------------
\* The slot protocol of ExchangeSlot::exchange (EXCHANGE_EMPTY / WAITING /
\* BUSY) is not unfolded: an exchange is one step with one of its two
\* results, the input handed back or the partner's input.
AtExchange(t) == pl_loc[t].pc \in { "push_exchange", "pop_exchange" }

\* What a thread hands to ExchangeArray::exchange: Some((flag, data)) from
\* do_push, None (0 here) from pop.
Offered(t) == IF pl_loc[t].pc = "push_exchange" THEN pl_loc[t].flag ELSE 0

\* The locals of a thread after exchange returned the tuple `got` (0 for
\* None): do_push goes on with the tuple or returns, pop returns the tuple
\* or goes round its loop.
AfterExchange(t, got) ==
    IF pl_loc[t].pc = "push_exchange"
    THEN IF got # 0
         THEN [pl_loc[t] EXCEPT !.flag = got, !.pc = "push_load_head"]
         ELSE [pl_loc[t] EXCEPT !.pc = AfterDoPush(t)]
    ELSE IF got # 0
         THEN [pl_loc[t] EXCEPT !.res = got, !.pc = "pop_count"]
         ELSE [pl_loc[t] EXCEPT !.pc = "pop_load_head"]

\* The page reference a thread gives up when exchange has returned: at the
\* end of the loop body or at the return of do_push; pop gives it up after
\* its count.fetch_sub.
ReleasedAfterExchange(bufs, t, got) ==
    IF pl_loc[t].pc = "pop_exchange" /\ got # 0 THEN bufs
    ELSE Unref(bufs, pl_loc[t].head_ptr)

\* ExchangeSlot::exchange with no partner within EXCHANGE_SPIN_WAIT:
\* Err(data), the input handed back.
ExchangeAlone(t) ==
    /\ AtExchange(t)
    /\ pl_loc' = [pl_loc EXCEPT ![t] = AfterExchange(t, Offered(t))]
    /\ pl_bufs' = ReleasedAfterExchange(pl_bufs, t, Offered(t))
    /\ UNCHANGED <<pl_list, pl_log, pl_phase, pl_ops>>
    /\ ListFrame

\* ExchangeSlot::exchange of two threads meeting in one slot: each returns
\* Ok(what the other handed in).
ExchangePair(t, u) ==
    /\ t # u
    /\ AtExchange(t) /\ AtExchange(u)
    /\ pl_loc' = [pl_loc EXCEPT ![t] = AfterExchange(t, Offered(u)),
                                ![u] = AfterExchange(u, Offered(t))]
    /\ pl_bufs' = ReleasedAfterExchange(
                      ReleasedAfterExchange(pl_bufs, t, Offered(u)), u, Offered(t))
    /\ UNCHANGED <<pl_list, pl_log, pl_phase, pl_ops>>
    /\ ListFrame

\* ---- pop --------------------------------------------------------------
\* List::pop is called: by a thread of the run, or by the first thread
\* draining the list once every call has returned.
PagedListPop(t, max) ==
    /\ \/ pl_phase = "run" /\ pl_ops < max
       \/ pl_phase = "drain" /\ t = 1
    /\ pl_loc[t].pc = "idle"
    /\ pl_ops' = pl_ops + 1
    /\ SetLoc(t, [call |-> "pop", pc |-> "pop_enter"])
    /\ UNCHANGED <<pl_list, pl_bufs, pl_log, pl_phase>>
    /\ ListFrame

\* pop returns `ret` (0 for None) to its caller: the user, or the loop of
\* drop_out_all, which hands Some(pair) to the callback and stops at None
\* or goes on to the swap after pop_amount pops.
PopReturns(t, ret) ==
    IF pl_loc[t].call = "pop"
    THEN /\ pl_loc' = [pl_loc EXCEPT ![t] = ListIdleLoc]
         /\ Log("pop", ret)
         /\ pl_phase' = IF pl_phase = "drain" /\ ret = 0 THEN "done" ELSE pl_phase
    ELSE /\ pl_phase' = pl_phase
         /\ IF ret = 0
            THEN /\ pl_loc' = [pl_loc EXCEPT ![t] = ListIdleLoc]
                 /\ Log("drop_ret", 0)
            ELSE /\ Log("cb", ret)
                 /\ pl_loc' = [pl_loc EXCEPT ![t] =
                       [ListIdleLoc EXCEPT !.call = "drop_out_all",
                                           !.left = pl_loc[t].left - 1,
                                           !.pc = IF pl_loc[t].left = 1
                                                  THEN "drop_swap" ELSE "pop_enter"]]

\* pop: count.load, None when it is 0.
PopEnter(t) ==
    /\ pl_loc[t].pc = "pop_enter"
    /\ IF pl_list.count = 0
       THEN PopReturns(t, 0)
       ELSE SetLoc(t, [pc |-> "pop_load_head"]) /\ UNCHANGED <<pl_log, pl_phase>>
    /\ UNCHANGED <<pl_list, pl_bufs, pl_ops>>
    /\ ListFrame

\* pop: self.head.load.
PopLoadHead(t) ==
    /\ pl_loc[t].pc = "pop_load_head"
    /\ SetLoc(t, [pc |-> "pop_borrow", head_ptr |-> pl_list.head])
    /\ UNCHANGED <<pl_list, pl_bufs, pl_log, pl_phase, pl_ops>>
    /\ ListFrame

\* pop: BufferMeta::borrow(head_ptr), page.head.load, page.next.load, and
\* the return of None from an empty chain.
PopBorrow(t) ==
    /\ pl_loc[t].pc = "pop_borrow"
    /\ LET b == pl_loc[t].head_ptr
           slot == pl_bufs[b].head
           next == pl_bufs[b].next
           go == IF slot = 0 /\ next = NullBuffer
                 THEN /\ pl_bufs' = pl_bufs
                      /\ PopReturns(t, 0)
                 ELSE /\ pl_bufs' = Borrow(pl_bufs, b)
                      /\ SetLoc(t, [slot |-> slot, next |-> next,
                                    pc |-> IF slot = 0 THEN "pop_cas_head"
                                           ELSE "pop_load_flag"])
                      /\ UNCHANGED <<pl_log, pl_phase>>
       IN  IF pl_bufs[b].freed
           THEN \E outcome \in FreedOutcomes :
                   IF outcome = "fault"
                   THEN Fault(t) /\ UNCHANGED <<pl_bufs, pl_log, pl_phase>>
                   ELSE go
           ELSE go
    /\ UNCHANGED <<pl_list, pl_ops>>
    /\ ListFrame

\* pop, head buffer empty with a next one: compare_and_swap of the list head
\* to the next buffer; drop(page) either way.
PopCasHead(t) ==
    /\ pl_loc[t].pc = "pop_cas_head"
    /\ IF pl_list.head = pl_loc[t].head_ptr
       THEN /\ pl_list' = [pl_list EXCEPT !.head = pl_loc[t].next]
            /\ SetLoc(t, [pc |-> "pop_drop_out"])
       ELSE /\ SetLoc(t, [pc |-> "pop_load_head"])
            /\ UNCHANGED pl_list
    /\ pl_bufs' = Unref(pl_bufs, pl_loc[t].head_ptr)
    /\ UNCHANGED <<pl_log, pl_phase, pl_ops>>
    /\ ListFrame

\* pop: BufferMeta::drop_out of the removed head.  It waits until no other
\* reference is held, hands what the buffer still holds to do_push and
\* frees the buffer.
PopDropOut(t) ==
    /\ pl_loc[t].pc = "pop_drop_out"
    /\ LET b == pl_loc[t].head_ptr
       IN  /\ pl_bufs[b].refs = 1
           /\ SetLoc(t, [pc |-> "pop_repush",
                         repush |-> LiveFlagsFrom(pl_bufs[b], 0, pl_bufs[b].head)])
           /\ pl_bufs' = DropOut(pl_bufs, b)
    /\ UNCHANGED <<pl_list, pl_log, pl_phase, pl_ops>>
    /\ ListFrame

\* pop: the callback of drop_out, do_push of each flag in turn, then
\* `continue`.
PopRepush(t) ==
    /\ pl_loc[t].pc = "pop_repush"
    /\ IF pl_loc[t].repush = <<>>
       THEN SetLoc(t, [pc |-> "pop_load_head"])
       ELSE SetLoc(t, [pc |-> "push_load_head", flag |-> Head(pl_loc[t].repush),
                       repush |-> Tail(pl_loc[t].repush)])
    /\ UNCHANGED <<pl_list, pl_bufs, pl_log, pl_phase, pl_ops>>
    /\ ListFrame

\* pop: atomic_load of the flag of slot - 1.
PopLoadFlag(t) ==
    /\ pl_loc[t].pc = "pop_load_flag"
    /\ LET new_slot_flag == pl_bufs[pl_loc[t].head_ptr].slots[pl_loc[t].slot - 1]
       IN  SetLoc(t, [seen |-> new_slot_flag,
                      pc |-> IF new_slot_flag # 0 THEN "pop_cxchg" ELSE "pop_exchange"])
    /\ UNCHANGED <<pl_list, pl_bufs, pl_log, pl_phase, pl_ops>>
    /\ ListFrame

\* pop: atomic_cxchg of the slot from the flag seen to EMPTY_SLOT.
PopCxchg(t) ==
    /\ pl_loc[t].pc = "pop_cxchg"
    /\ LET b == pl_loc[t].head_ptr
           i == pl_loc[t].slot - 1
       IN  IF pl_bufs[b].slots[i] = pl_loc[t].seen
           THEN /\ pl_bufs' = [pl_bufs EXCEPT ![b].slots[i] = EMPTY_SLOT]
                /\ SetLoc(t, [res |-> pl_loc[t].seen, pc |-> "pop_cas_slot"])
           ELSE /\ SetLoc(t, [pc |-> "pop_exchange"])
                /\ UNCHANGED pl_bufs
    /\ UNCHANGED <<pl_list, pl_log, pl_phase, pl_ops>>
    /\ ListFrame

\* After the slot was taken: return it, or pop again when it was a hole.
AfterTake(t) == IF pl_loc[t].seen # SENTINEL_SLOT THEN "pop_count" ELSE "pop_exchange"

\* pop: compare_and_swap of page.head from slot to slot - 1, with the
\* debug_assert!(swapped >= slot).
PopCasSlot(t) ==
    /\ pl_loc[t].pc = "pop_cas_slot"
    /\ LET b == pl_loc[t].head_ptr
           swapped == pl_bufs[b].head
       IN  IF swapped = pl_loc[t].slot
           THEN /\ pl_bufs' = [pl_bufs EXCEPT ![b].head = pl_loc[t].slot - 1]
                /\ SetLoc(t, [pc |-> AfterTake(t)])
           ELSE /\ UNCHANGED pl_bufs
                /\ \E build \in Builds :
                      IF build = "debug" /\ swapped < pl_loc[t].slot
                      THEN Fault(t)
                      ELSE SetLoc(t, [pc |-> "pop_sentinel"])
    /\ UNCHANGED <<pl_list, pl_log, pl_phase, pl_ops>>
    /\ ListFrame

\* pop: the slot becomes a hole when a push moved page.head meanwhile.
PopStoreSentinel(t) ==
    /\ pl_loc[t].pc = "pop_sentinel"
    /\ pl_bufs' = [pl_bufs EXCEPT
                      ![pl_loc[t].head_ptr].slots[pl_loc[t].slot - 1] = SENTINEL_SLOT]
    /\ SetLoc(t, [pc |-> AfterTake(t)])
    /\ UNCHANGED <<pl_list, pl_log, pl_phase, pl_ops>>
    /\ ListFrame

\* pop: count.fetch_sub(1) and the return of Some(res).
PopCount(t) ==
    /\ pl_loc[t].pc = "pop_count"
    /\ pl_list' = [pl_list EXCEPT !.count = @ - 1]
    /\ pl_bufs' = Unref(pl_bufs, pl_loc[t].head_ptr)
    /\ PopReturns(t, pl_loc[t].res)
    /\ UNCHANGED pl_ops
    /\ ListFrame

\* ---- drop_out_all -----------------------------------------------------
\* pop_threshold of drop_out_all.
PopThreshold(buffer_cap) == Min(buffer_cap \div 2, 64)

\* List::drop_out_all is called with Some(callback).
PagedListDropOutAll(t, max) ==
    /\ pl_phase = "run" /\ pl_ops < max
    /\ pl_loc[t].pc = "idle"
    /\ pl_ops' = pl_ops + 1
    /\ SetLoc(t, [call |-> "drop_out_all", pc |-> "drop_enter"])
    /\ Log("drop_call", 0)
    /\ UNCHANGED <<pl_list, pl_bufs, pl_phase>>
    /\ ListFrame

\* drop_out_all: count.load; nothing to do at 0, pops below the threshold,
\* the swap of the head otherwise.
DropEnter(t) ==
    /\ pl_loc[t].pc = "drop_enter"
    /\ LET count == pl_list.count
           pop_threshold == PopThreshold(pl_list.buffer_cap)
       IN  IF count = 0
           THEN /\ pl_loc' = [pl_loc EXCEPT ![t] = ListIdleLoc]
                /\ Log("drop_ret", 0)
           ELSE /\ IF count < pop_threshold
                   THEN SetLoc(t, [left |-> pop_threshold * 2, pc |-> "pop_enter"])
                   ELSE SetLoc(t, [pc |-> "drop_swap"])
                /\ UNCHANGED pl_log
    /\ UNCHANGED <<pl_list, pl_bufs, pl_phase, pl_ops>>
    /\ ListFrame

\* drop_out_all: head.swap(new_head_buffer).
DropSwap(t) ==
    /\ pl_loc[t].pc = "drop_swap"
    /\ pl_bufs' = Append(pl_bufs, NewBuffer(pl_list.buffer_cap, NullBuffer))
    /\ pl_list' = [pl_list EXCEPT !.head = Len(pl_bufs) + 1]
    /\ SetLoc(t, [head_ptr |-> pl_list.head, counter |-> 0, left |-> 0,
                  pc |-> "drop_walk"])
    /\ UNCHANGED <<pl_log, pl_phase, pl_ops>>
    /\ ListFrame

RECURSIVE LogEach(_, _)
\* The callback called on each flag of a flushed buffer, in order.
LogEach(log, flags) ==
    IF flags = <<>> THEN log
    ELSE LogEach(Append(log, [op |-> "cb", v |-> Head(flags)]), Tail(flags))

\* drop_out_all: BufferMeta::drop_out of one buffer of the detached chain,
\* the callback on each live slot, then the next buffer.
DropWalk(t) ==
    /\ pl_loc[t].pc = "drop_walk"
    /\ LET b == pl_loc[t].head_ptr
       IN  IF b = NullBuffer
           THEN /\ SetLoc(t, [pc |-> "drop_count"])
                /\ UNCHANGED <<pl_bufs, pl_log>>
           ELSE /\ pl_bufs[b].refs = 1
                /\ LET flags == LiveFlagsFrom(pl_bufs[b], 0, pl_bufs[b].head)
                   IN  /\ pl_log' = LogEach(pl_log, flags)
                       /\ SetLoc(t, [head_ptr |-> pl_bufs[b].next,
                                     counter |-> pl_loc[t].counter + Len(flags)])
                /\ pl_bufs' = DropOut(pl_bufs, b)
    /\ UNCHANGED <<pl_list, pl_phase, pl_ops>>
    /\ ListFrame

\* drop_out_all: count.fetch_sub(counter) and the return.
DropCount(t) ==
    /\ pl_loc[t].pc = "drop_count"
    /\ pl_list' = [pl_list EXCEPT !.count = @ - pl_loc[t].counter]
    /\ pl_loc' = [pl_loc EXCEPT ![t] = ListIdleLoc]
    /\ Log("drop_ret", 0)
    /\ UNCHANGED <<pl_bufs, pl_phase, pl_ops>>
    /\ ListFrame

\* Every thread has returned from its calls (the join of test::parallel);
\* the list is drained after it.
ListJoin ==
    /\ pl_phase = "run"
    /\ pl_log # <<>>
    /\ \A t \in ListThreads : pl_loc[t].pc = "idle"
    /\ pl_phase' = "drain"
    /\ UNCHANGED <<pl_list, pl_bufs, pl_loc, pl_log, pl_ops>>
    /\ ListFrame

ListNext ==
    \/ \E t \in ListThreads : PagedListPush(t, MaxListOps)
    \/ \E t \in ListThreads : PagedListPop(t, MaxListOps)
    \/ \E t \in ListThreads : PushLoadHead(t)
    \/ \E t \in ListThreads : PushBorrow(t)
    \/ \E t \in ListThreads : PushNewBuffer(t)
    \/ \E t \in ListThreads : PushCasSlot(t)
    \/ \E t \in ListThreads : PushWrite(t)
    \/ \E t \in ListThreads : PushCount(t)
    \/ \E t \in ListThreads : ExchangeAlone(t)
    \/ \E t, u \in ListThreads : ExchangePair(t, u)
    \/ \E t \in ListThreads : PopEnter(t)
    \/ \E t \in ListThreads : PopLoadHead(t)
    \/ \E t \in ListThreads : PopBorrow(t)
    \/ \E t \in ListThreads : PopCasHead(t)
    \/ \E t \in ListThreads : PopDropOut(t)
    \/ \E t \in ListThreads : PopRepush(t)
    \/ \E t \in ListThreads : PopLoadFlag(t)
    \/ \E t \in ListThreads : PopCxchg(t)
    \/ \E t \in ListThreads : PopCasSlot(t)
    \/ \E t \in ListThreads : PopStoreSentinel(t)
    \/ \E t \in ListThreads : PopCount(t)
    \/ ListJoin

\* One thread: push, pop and drop_out_all in any order.
ListSeqNext ==
    \/ \E t \in SeqThreads : PagedListPush(t, MaxSeqOps)
    \/ \E t \in SeqThreads : PagedListPop(t, MaxSeqOps)
    \/ \E t \in SeqThreads : PagedListDropOutAll(t, MaxSeqOps)
    \/ \E t \in SeqThreads : PushLoadHead(t)
    \/ \E t \in SeqThreads : PushBorrow(t)
    \/ \E t \in SeqThreads : PushNewBuffer(t)
    \/ \E t \in SeqThreads : PushCasSlot(t)
    \/ \E t \in SeqThreads : PushWrite(t)
    \/ \E t \in SeqThreads : PushCount(t)
    \/ \E t \in SeqThreads : ExchangeAlone(t)
    \/ \E t \in SeqThreads : PopEnter(t)
    \/ \E t \in SeqThreads : PopLoadHead(t)
    \/ \E t \in SeqThreads : PopBorrow(t)
    \/ \E t \in SeqThreads : PopCasHead(t)
    \/ \E t \in SeqThreads : PopDropOut(t)
    \/ \E t \in SeqThreads : PopRepush(t)
    \/ \E t \in SeqThreads : PopLoadFlag(t)
    \/ \E t \in SeqThreads : PopCxchg(t)
    \/ \E t \in SeqThreads : PopCasSlot(t)
    \/ \E t \in SeqThreads : PopCount(t)
    \/ \E t \in SeqThreads : DropEnter(t)
    \/ \E t \in SeqThreads : DropSwap(t)
    \/ \E t \in SeqThreads : DropWalk(t)
    \/ \E t \in SeqThreads : DropCount(t)

\* The list of a specification that makes no call on it.
ListIdle == ListInit({ 2 })

\* ---------------------------------------------------------------------------
\* Exchange slot (collections/lflist.rs, ExchangeSlot): one cell of the
\* elimination array. Every atomic access of exchange() is one step; the
\* plain accesses of the data cell are steps of their own.
\* ---------------------------------------------------------------------------

EXCHANGE_EMPTY == 0

EXCHANGE_WAITING == 1

EXCHANGE_BUSY == 2

EXCHANGE_SPIN_WAIT == 200

NumExThreads == 2

MaxExCalls == 1

ExThreads == 1 .. NumExThreads

\* Option<ExchangeData<T>>: NoDatum is None, a positive number is Some(d).
NoDatum == 0

\* The datum of thread t's n-th call; every call submits a different one.
ExDatum(t, n) == t * 10 + n

ExIdleLoc == [pc |-> "idle", state |-> EXCHANGE_EMPTY, data |-> NoDatum, input |-> NoDatum,
              spin_count |-> 0, loaded |-> EXCHANGE_EMPTY, after |-> "idle"]

\* ExchangeSlot::new
ExInit ==
    /\ ex_state = EXCHANGE_EMPTY
    /\ ex_data = NoDatum
    /\ ex_data_state = EXCHANGE_EMPTY
    /\ ex_loc = [t \in ExThreads |-> ExIdleLoc]
    /\ ex_log = [t \in ExThreads |-> << >>]

ExSetLoc(t, l) == ex_loc' = [ex_loc EXCEPT ![t] = l]

\* The call of thread t ends with `kind` ("Ok", "Err" or "panic") and `out`.
ExEnd(t, kind, out) ==
    /\ ex_log' = [ex_log EXCEPT ![t] = Append(@, [input |-> ex_loc[t].input, kind |-> kind, out |-> out])]
    /\ ExSetLoc(t, [ExIdleLoc EXCEPT !.pc = IF kind = "panic" THEN "panicked" ELSE "idle"])

\* let state = self.state.load(Relaxed), and the branch on it.
ExLoadState(t) ==
    /\ ex_loc[t].pc = "idle"
    /\ Len(ex_log[t]) < MaxExCalls
    /\ LET d == ExDatum(t, Len(ex_log[t]) + 1)
           l == [ExIdleLoc EXCEPT !.state = ex_state, !.data = d, !.input = d]
       IN  /\ ex_loc' = [ex_loc EXCEPT ![t] =
                   [l EXCEPT !.pc = CASE ex_state = EXCHANGE_EMPTY -> "wait_empty"
                                      [] ex_state = EXCHANGE_WAITING -> "cas_busy"
                                      [] OTHER -> "err_input"]]
           /\ UNCHANGED << ex_state, ex_data, ex_data_state, ex_log >>
    /\ ExFrame

\* return Err(data): the input comes back.
ExErrInput(t) ==
    /\ ex_loc[t].pc = "err_input"
    /\ ExEnd(t, "Err", ex_loc[t].data)
    /\ UNCHANGED << ex_state, ex_data, ex_data_state >>
    /\ ExFrame

\* wait_state_data_until(expecting): spins until data_state has the value.
ExWaitUntil(t, pc, expecting, next) ==
    /\ ex_loc[t].pc = pc
    /\ ex_data_state = expecting
    /\ ExSetLoc(t, [ex_loc[t] EXCEPT !.pc = next])
    /\ UNCHANGED << ex_state, ex_data, ex_data_state, ex_log >>
    /\ ExFrame

ExWaitEmpty(t) == ExWaitUntil(t, "wait_empty", EXCHANGE_EMPTY, "cas_waiting")

\* compare_and_swap(EXCHANGE_EMPTY, EXCHANGE_WAITING)
ExCasWaiting(t) ==
    /\ ex_loc[t].pc = "cas_waiting"
    /\ IF ex_state = EXCHANGE_EMPTY
       THEN /\ ex_state' = EXCHANGE_WAITING
            /\ ExSetLoc(t, [ex_loc[t] EXCEPT !.pc = "store"])
       ELSE /\ ex_state' = ex_state
            /\ ExSetLoc(t, [ex_loc[t] EXCEPT !.pc = "err_input"])
    /\ UNCHANGED << ex_data, ex_data_state, ex_log >>
    /\ ExFrame

\* store_state_data: ptr::write of Some(data) into the cell.
ExWriteCell(t) ==
    /\ ex_loc[t].pc = "store"
    /\ ex_data' = ex_loc[t].data
    /\ ExSetLoc(t, [ex_loc[t] EXCEPT !.pc = "sync_load", !.data = NoDatum, !.after = "spin"])
    /\ UNCHANGED << ex_state, ex_data_state, ex_log >>
    /\ ExFrame

\* self.state.load(Relaxed), the argument of data_state.store.
ExSyncLoad(t) ==
    /\ ex_loc[t].pc = "sync_load"
    /\ ExSetLoc(t, [ex_loc[t] EXCEPT !.pc = "sync_store", !.loaded = ex_state])
    /\ UNCHANGED << ex_state, ex_data, ex_data_state, ex_log >>
    /\ ExFrame

\* self.data_state.store(.., Relaxed)
ExSyncStore(t) ==
    /\ ex_loc[t].pc = "sync_store"
    /\ ex_data_state' = ex_loc[t].loaded
    /\ ExSetLoc(t, [ex_loc[t] EXCEPT !.pc = ex_loc[t].after])
    /\ UNCHANGED << ex_state, ex_data, ex_log >>
    /\ ExFrame

\* One turn of the wait loop: spin_count += 1, and once the count has reached
\* EXCHANGE_SPIN_WAIT the CAS of WAITING back to EMPTY.
ExSpin(t) ==
    /\ ex_loc[t].pc = "spin"
    /\ LET n == IF ex_loc[t].spin_count < EXCHANGE_SPIN_WAIT THEN ex_loc[t].spin_count + 1
                ELSE ex_loc[t].spin_count
       IN  IF n < EXCHANGE_SPIN_WAIT
           THEN /\ ExSetLoc(t, [ex_loc[t] EXCEPT !.pc = "check_busy", !.spin_count = n])
                /\ ex_state' = ex_state
           ELSE /\ ex_state' = IF ex_state = EXCHANGE_WAITING THEN EXCHANGE_EMPTY ELSE ex_state
                /\ ExSetLoc(t, [ex_loc[t] EXCEPT !.spin_count = n,
                                   !.pc = IF ex_state = EXCHANGE_BUSY THEN "check_busy" ELSE "bail"])
    /\ UNCHANGED << ex_data, ex_data_state, ex_log >>
    /\ ExFrame

\* if self.state.load(Relaxed) != EXCHANGE_BUSY { continue; }
ExCheckBusy(t) ==
    /\ ex_loc[t].pc = "check_busy"
    /\ ExSetLoc(t, [ex_loc[t] EXCEPT !.pc = IF ex_state = EXCHANGE_BUSY THEN "wait_busy" ELSE "spin"])
    /\ UNCHANGED << ex_state, ex_data, ex_data_state, ex_log >>
    /\ ExFrame

ExWaitBusy(t) == ExWaitUntil(t, "wait_busy", EXCHANGE_BUSY, "store_empty")

\* self.state.store(EXCHANGE_EMPTY, Relaxed)
ExStoreEmpty(t) ==
    /\ ex_loc[t].pc = "store_empty"
    /\ ex_state' = EXCHANGE_EMPTY
    /\ ExSetLoc(t, [ex_loc[t] EXCEPT !.pc = "swap", !.data = NoDatum, !.after = "ok_or_unreachable"])
    /\ UNCHANGED << ex_data, ex_data_state, ex_log >>
    /\ ExFrame

\* swap_state_data: mem::swap of the caller's option with the cell.
ExSwap(t) ==
    /\ ex_loc[t].pc = "swap"
    /\ ex_data' = ex_loc[t].data
    /\ ExSetLoc(t, [ex_loc[t] EXCEPT !.pc = "sync_load", !.data = ex_data])
    /\ UNCHANGED << ex_state, ex_data_state, ex_log >>
    /\ ExFrame

\* if let Some(res) = data_result { return Ok(res) } else { unreachable!() }
ExOk(t) ==
    /\ ex_loc[t].pc = "ok_or_unreachable"
    /\ IF ex_loc[t].data # NoDatum THEN ExEnd(t, "Ok", ex_loc[t].data)
       ELSE ExEnd(t, "panic", NoDatum)
    /\ UNCHANGED << ex_state, ex_data, ex_data_state >>
    /\ ExFrame

\* assert_eq!(self.state.load(Relaxed), EXCHANGE_EMPTY, "Bad state after bail")
ExBailAssert(t) ==
    /\ ex_loc[t].pc = "bail"
    /\ IF ex_state = EXCHANGE_EMPTY
       THEN /\ ExSetLoc(t, [ex_loc[t] EXCEPT !.pc = "swap", !.data = NoDatum, !.after = "err_or_unreachable"])
            /\ ex_log' = ex_log
       ELSE ExEnd(t, "panic", NoDatum)
    /\ UNCHANGED << ex_state, ex_data, ex_data_state >>
    /\ ExFrame

\* if let Some(returned_data) = .. { return Err(returned_data) } else { unreachable!() }
ExErrReturned(t) ==
    /\ ex_loc[t].pc = "err_or_unreachable"
    /\ IF ex_loc[t].data # NoDatum THEN ExEnd(t, "Err", ex_loc[t].data)
       ELSE ExEnd(t, "panic", NoDatum)
    /\ UNCHANGED << ex_state, ex_data, ex_data_state >>
    /\ ExFrame

\* compare_and_swap(EXCHANGE_WAITING, EXCHANGE_BUSY)
ExCasBusy(t) ==
    /\ ex_loc[t].pc = "cas_busy"
    /\ IF ex_state = EXCHANGE_WAITING
       THEN /\ ex_state' = EXCHANGE_BUSY
            /\ ExSetLoc(t, [ex_loc[t] EXCEPT !.pc = "wait_waiting", !.after = "ok_or_unreachable"])
       ELSE /\ ex_state' = ex_state
            /\ ExSetLoc(t, [ex_loc[t] EXCEPT !.pc = "err_input"])
    /\ UNCHANGED << ex_data, ex_data_state, ex_log >>
    /\ ExFrame

\* wait_state_data_until(EXCHANGE_WAITING), then the swap with Some(data).
ExWaitWaiting(t) == ExWaitUntil(t, "wait_waiting", EXCHANGE_WAITING, "swap")

ExNext ==
    \E t \in ExThreads :
        \/ ExLoadState(t) \/ ExErrInput(t) \/ ExWaitEmpty(t) \/ ExCasWaiting(t)
        \/ ExWriteCell(t) \/ ExSyncLoad(t) \/ ExSyncStore(t) \/ ExSpin(t)
        \/ ExCheckBusy(t) \/ ExWaitBusy(t) \/ ExStoreEmpty(t) \/ ExSwap(t)
        \/ ExOk(t) \/ ExBailAssert(t) \/ ExErrReturned(t) \/ ExCasBusy(t)
        \/ ExWaitWaiting(t)

\* ---------------------------------------------------------------------------
\* Lock-free hash table (lfmap.rs, Table). A chunk is its capacity, its
\* occupation and reference counters and its entries; a value word is kept as
\* its top bit and the rest. Every atomic access of a slot is one step; a
\* probe reads the key and, when it matches, the value in one step (a key,
\* once stored, never changes).
\* ---------------------------------------------------------------------------

EMPTY_KEY == 0

EMPTY_VALUE == 0

SENTINEL_VALUE == 1

\* Bits of a usize; the top bit is inv_bit_mask, the rest val_bit_mask.
MapWordBits == 64

NumMapThreads == 2

MaxMapOps == 3

MaxSeqMapOps == 4

MapThreads == 1 .. NumMapThreads

SeqMapThreads == { 1 }

\* Keys other than EMPTY_KEY.
MapKeys == { 1, 2, 3 }

\* Values a caller stores: neither EMPTY_VALUE nor SENTINEL_VALUE, top bit clear.
MapValues == { 2, 3 }

\* Keys and values of the calls that run concurrently.
ConMapKeys == { 1, 2 }

ConMapValues == { 2 }

\* The capacities handed to with_capacity.
MapCaps == { 1, 2 }

NullChunk == 0

\* The word top * 2^(MapWordBits - 1) + low.
Raw(top, low) == [top |-> top, low |-> low]

\* raw | inv_bit_mask, raw & val_bit_mask
WithPrime(raw) == Raw(1, raw.low)

StripPrimeToEmpty(raw) == Raw(0, EMPTY_VALUE)

StripPrime(raw) == Raw(0, raw.low)

\* Value::new: the parsed form of a raw word. flag is val & inv_bit_mask, that
\* is 0 or 2^(MapWordBits - 1), and is compared with 1.
ValueNew(raw) ==
    IF raw = Raw(0, 0) THEN [parsed |-> "Empty", v |-> 0]
    ELSE LET actual_val == raw.low
             flag_is_one == raw.top = 1 /\ MapWordBits = 1
         IN  IF flag_is_one THEN [parsed |-> "Prime", v |-> actual_val]
             ELSE IF actual_val = 1 THEN [parsed |-> "Sentinel", v |-> 0]
             ELSE [parsed |-> "Val", v |-> actual_val]

\* occupation_limit: (cap as f64 * 0.7) as usize
occupation_limit(cap) == (cap * 7) \div 10

\* Chunk::alloc_chunk: zeroed entries, occupation 0, refs 1. `born` is the
\* number of calls that had ended when the chunk became new_chunk.
alloc_chunk(cap) ==
    [capacity |-> cap, occupation |-> 0, refs |-> 1, freed |-> FALSE, born |-> 0,
     keys |-> [i \in 0 .. cap - 1 |-> EMPTY_KEY],
     vals |-> [i \in 0 .. cap - 1 |-> Raw(0, EMPTY_VALUE)]]

\* check_resize: the capacity of the chunk a resize allocates.
NewCapTimes4(old_cap) == old_cap * (IF old_cap < 2048 THEN 4 ELSE 2)

NewCap(old_cap) ==
    LET mult == IF old_cap < 2048 THEN 4 ELSE 1
    IN  old_cap * 2 ^ mult

\* idx &= (cap - 1), for a capacity that is a power of two
MaskIdx(idx, cap) == idx % cap

\* Chunk::borrow and the drop of a ChunkRef (fetch_sub, then check_gc, which
\* frees the chunk when the count has reached 0).
ChunkBorrow(chunks, c) == [chunks EXCEPT ![c].refs = @ + 1]

ChunkRelease(chunks, c) ==
    IF chunks[c].freed THEN chunks
    ELSE [chunks EXCEPT ![c].refs = @ - 1, ![c].freed = (chunks[c].refs = 1)]

RECURSIVE ChunkReleaseAll(_, _)
ChunkReleaseAll(chunks, held) ==
    IF held = << >> THEN chunks
    ELSE ChunkReleaseAll(ChunkRelease(chunks, Head(held)), Tail(held))

MapIdleLoc ==
    [pc |-> "idle", op |-> "none", key |-> 0, value |-> 0,
     new_ptr |-> NullChunk, old_ptr |-> NullChunk, copying |-> FALSE,
     held |-> << >>, chunk |-> NullChunk, idx |-> 0, count |-> 0,
     mod_key |-> 0, mod_op |-> "none", mod_val |-> Raw(0, 0), raw |-> Raw(0, 0), replaced |-> 0,
     ret |-> "idle", res |-> [kind |-> "none", v |-> 0, index |-> 0],
     result |-> 0, addr |-> 0, effective_copy |-> 0, cr_new |-> NullChunk,
     cr_raw |-> Raw(0, 0), since |-> 0, during |-> {}]

\* Table::with_capacity: old_chunk and new_chunk point at one chunk.
MapInit(caps) ==
    /\ \E cap \in caps : map_chunks = << alloc_chunk(cap) >>
    /\ map_old = 1
    /\ map_new = 1
    /\ map_loc = [t \in MapThreads |-> MapIdleLoc]
    /\ map_log = << >>
    /\ map_ops = 0

MapSetLoc(t, l) == map_loc' = [map_loc EXCEPT ![t] = l]

\* The call of thread t ends: its ChunkRefs are dropped and the call is
\* recorded with its result (0 for None), with `since`, the number of calls
\* that had ended when it started, and with `during`, the chunks whose copy
\* was in progress at some point of the call.
MapReturn(t, chunks, result) ==
    /\ map_chunks' = ChunkReleaseAll(chunks, map_loc[t].held)
    /\ map_log' = Append(map_log, [t |-> t, op |-> map_loc[t].op, key |-> map_loc[t].key,
                                   value |-> map_loc[t].value, ret |-> result,
                                   kind |-> "return", since |-> map_loc[t].since,
                                   during |-> map_loc[t].during])
    /\ MapSetLoc(t, MapIdleLoc)

\* The call of thread t ends in a panic or a fault; the thread goes no further.
MapAbort(t, how) ==
    /\ map_log' = Append(map_log, [t |-> t, op |-> map_loc[t].op, key |-> map_loc[t].key,
                                   value |-> map_loc[t].value, ret |-> 0, kind |-> how,
                                   since |-> map_loc[t].since, during |-> map_loc[t].during])
    /\ MapSetLoc(t, [MapIdleLoc EXCEPT !.pc = "aborted"])
    /\ UNCHANGED << map_old, map_new, map_chunks, map_ops >>

\* A call starts: one of get, insert and remove, on a key of MapKeys.
MapCall(t, max, keys, values) ==
    /\ map_loc[t].pc = "idle"
    /\ map_ops < max
    /\ \E op \in { "get", "insert", "remove" }, k \in keys, v \in values :
           /\ op # "insert" => v = 2
           /\ MapSetLoc(t, [MapIdleLoc EXCEPT !.op = op, !.key = k,
                               !.value = IF op = "insert" THEN v ELSE 0,
                               !.since = Len(map_log),
                               !.during = IF map_old # map_new THEN { map_new } ELSE {},
                               !.pc = IF op = "get" THEN "get_load" ELSE "load_new"])
    /\ map_ops' = map_ops + 1
    /\ UNCHANGED << map_old, map_new, map_chunks, map_log >>
    /\ MapFrame

\* Chunk::borrow(ptr) by thread t, whose locals become l, at pc `next`.
\* A chunk that was freed is borrowed all the same: the access faults or
\* finds the memory as it was left.
MapBorrow(t, ptr, l, next) ==
    IF map_chunks[ptr].freed
    THEN \E o \in FreedOutcomes :
            IF o = "fault" THEN MapAbort(t, "fault")
            ELSE /\ MapSetLoc(t, [l EXCEPT !.pc = next])
                 /\ UNCHANGED << map_old, map_new, map_chunks, map_log, map_ops >>
    ELSE /\ map_chunks' = ChunkBorrow(map_chunks, ptr)
         /\ MapSetLoc(t, [l EXCEPT !.pc = next, !.held = Append(@, ptr)])
         /\ UNCHANGED << map_old, map_new, map_log, map_ops >>

\* get: self.old_chunk.load(SeqCst)
GetLoadOld(t) ==
    /\ map_loc[t].pc = "get_load"
    /\ MapSetLoc(t, [map_loc[t] EXCEPT !.pc = "get_borrow", !.chunk = map_old])
    /\ UNCHANGED << map_old, map_new, map_chunks, map_log, map_ops >>
    /\ MapFrame

\* get: Chunk::borrow of the loaded pointer, and the start of get_from_chunk.
GetBorrow(t) ==
    /\ map_loc[t].pc = "get_borrow"
    /\ LET c == map_loc[t].chunk
       IN  MapBorrow(t, c, [map_loc[t] EXCEPT !.idx = map_loc[t].key, !.count = 0],
                     "get_probe")
    /\ MapFrame

\* get_from_chunk: one turn of the probe loop, and what get does with the
\* value the loop returns.
GetProbe(t) ==
    /\ map_loc[t].pc = "get_probe"
    /\ LET l == map_loc[t]
           ch == map_chunks[l.chunk]
           idx == MaskIdx(l.idx, ch.capacity)
           k == ch.keys[idx]
           val == ValueNew(ch.vals[idx])
       IN  IF l.count >= ch.capacity
           THEN MapReturn(t, map_chunks, 0)
           ELSE IF k = l.key /\ val.parsed \in { "Val", "Prime" }
           THEN MapReturn(t, map_chunks, val.v)
           ELSE IF k = l.key /\ val.parsed = "Sentinel"
           THEN /\ MapSetLoc(t, [l EXCEPT !.pc = "get_load_new"])
                /\ UNCHANGED << map_chunks, map_log >>
           ELSE IF k = EMPTY_KEY
           THEN MapReturn(t, map_chunks, 0)
           ELSE /\ MapSetLoc(t, [l EXCEPT !.idx = idx + 1, !.count = l.count + 1])
                /\ UNCHANGED << map_chunks, map_log >>
    /\ UNCHANGED << map_old, map_new, map_ops >>
    /\ MapFrame

\* get, on a sentinel: self.new_chunk.load(SeqCst)
GetLoadNew(t) ==
    /\ map_loc[t].pc = "get_load_new"
    /\ MapSetLoc(t, [map_loc[t] EXCEPT !.pc = "get_borrow_new", !.new_ptr = map_new])
    /\ UNCHANGED << map_old, map_new, map_chunks, map_log, map_ops >>
    /\ MapFrame

\* get, on a sentinel: the borrow of the new chunk; the chunk probed so far is
\* released, and debug_assert_ne! compares the two bases (a failed assertion
\* and the endless loop of a release build both end the call here).
GetBorrowNew(t) ==
    /\ map_loc[t].pc = "get_borrow_new"
    /\ LET l == map_loc[t]
       IN  IF l.new_ptr = l.chunk THEN MapAbort(t, "panic")
           ELSE IF map_chunks[l.new_ptr].freed
           THEN MapBorrow(t, l.new_ptr,
                          [l EXCEPT !.chunk = l.new_ptr, !.idx = l.key, !.count = 0],
                          "get_probe")
           ELSE /\ map_chunks' = ChunkReleaseAll(ChunkBorrow(map_chunks, l.new_ptr), l.held)
                /\ MapSetLoc(t, [l EXCEPT !.pc = "get_probe", !.chunk = l.new_ptr,
                                    !.held = << l.new_ptr >>, !.idx = l.key, !.count = 0])
                /\ UNCHANGED << map_old, map_new, map_log, map_ops >>
    /\ MapFrame

\* ensure_write_new: self.new_chunk.load(SeqCst), the argument of the closure.
WriteLoadNew(t) ==
    /\ map_loc[t].pc = "load_new"
    /\ MapSetLoc(t, [map_loc[t] EXCEPT !.pc = "load_old", !.new_ptr = map_new])
    /\ UNCHANGED << map_old, map_new, map_chunks, map_log, map_ops >>
    /\ MapFrame

\* insert, remove: self.old_chunk.load(Relaxed) and copying; an insert that
\* sees no copy in progress goes through check_resize first.
WriteLoadOld(t) ==
    /\ map_loc[t].pc = "load_old"
    /\ LET copying == map_loc[t].new_ptr # map_old
       IN  MapSetLoc(t, [map_loc[t] EXCEPT !.old_ptr = map_old, !.copying = copying,
                            !.pc = IF map_loc[t].op = "insert" /\ ~copying
                                   THEN "resize_borrow" ELSE "borrow_new"])
    /\ UNCHANGED << map_old, map_new, map_chunks, map_log, map_ops >>
    /\ MapFrame

\* insert, remove: Chunk::borrow(new_chunk_ptr)
WriteBorrowNew(t) ==
    /\ map_loc[t].pc = "borrow_new"
    /\ MapBorrow(t, map_loc[t].new_ptr, map_loc[t],
                 IF map_loc[t].copying THEN "borrow_old" ELSE "modify_new")
    /\ MapFrame

\* insert, remove: Chunk::borrow_if_cond(old_chunk_ptr, copying)
WriteBorrowOld(t) ==
    /\ map_loc[t].pc = "borrow_old"
    /\ MapBorrow(t, map_loc[t].old_ptr, map_loc[t], "modify_new")
    /\ MapFrame

\* The call of modify_entry(chunk, key, op) by thread t, to go on at `ret`.
ModifyEntryFromZero(l, chunk, key, op, val, ret) ==
    [l EXCEPT !.pc = "probe", !.chunk = chunk, !.mod_key = key, !.mod_op = op,
              !.mod_val = val, !.idx = 0, !.count = 0, !.replaced = 0, !.ret = ret]

ModifyEntry(l, chunk, key, op, val, ret) ==
    [l EXCEPT !.pc = "probe", !.chunk = chunk, !.mod_key = key, !.mod_op = op,
              !.mod_val = val, !.idx = key, !.count = 0, !.replaced = 0, !.ret = ret]

\* modify_entry returns.
ModReturn(l, kind, v, index) ==
    [l EXCEPT !.pc = l.ret, !.res = [kind |-> kind, v |-> v, index |-> index]]

\* insert: modify_entry(&*new_chunk, key, ModOp::Insert(value, ..));
\* remove: modify_entry(&*new_chunk, key, ModOp::Empty)
WriteModifyNew(t) ==
    /\ map_loc[t].pc = "modify_new"
    /\ LET l == map_loc[t]
       IN  MapSetLoc(t, IF l.op = "insert"
                        THEN ModifyEntry(l, l.new_ptr, l.key, "Insert", Raw(0, l.value), "inserted")
                        ELSE ModifyEntry(l, l.new_ptr, l.key, "Empty", Raw(0, 0), "removed"))
    /\ UNCHANGED << map_old, map_new, map_chunks, map_log, map_ops >>
    /\ MapFrame

\* modify_entry: one turn of the probe loop up to its write, or the result of
\* the loop when count has passed the capacity.
ModProbe(t) ==
    /\ map_loc[t].pc = "probe"
    /\ LET l == map_loc[t]
           ch == map_chunks[l.chunk]
           idx == MaskIdx(l.idx, ch.capacity)
           k == ch.keys[idx]
           raw == ch.vals[idx]
           val == ValueNew(raw)
           reprobe == [l EXCEPT !.idx = idx + 1, !.count = l.count + 1]
       IN  MapSetLoc(t,
             IF l.count > ch.capacity
             THEN ModReturn(l, IF l.mod_op \in { "Insert", "AttemptInsert" }
                               THEN "TableFull" ELSE "NotFound", 0, 0)
             ELSE IF k = l.mod_key
             THEN CASE val.parsed \in { "Val", "Prime" } ->
                          CASE l.mod_op = "Sentinel" ->
                                   [l EXCEPT !.pc = "set_sentinel", !.idx = idx]
                            [] l.mod_op \in { "Empty", "Insert" } ->
                                   [l EXCEPT !.pc = "set_tombstone", !.idx = idx, !.raw = raw]
                            [] OTHER -> ModReturn(l, "Fail", val.v, idx)
                    [] val.parsed = "Empty" -> reprobe
                    [] OTHER -> ModReturn(l, "Sentinel", 0, idx)
             ELSE IF k = EMPTY_KEY
             THEN IF l.mod_op = "Empty" THEN ModReturn(l, "Fail", 0, idx)
                  ELSE [l EXCEPT !.pc = "put_in_empty", !.idx = idx]
             ELSE reprobe)
    /\ UNCHANGED << map_old, map_new, map_chunks, map_log, map_ops >>
    /\ MapFrame

\* set_sentinel: the store of SENTINEL_VALUE over a live value.
ModSetSentinel(t) ==
    /\ map_loc[t].pc = "set_sentinel"
    /\ LET l == map_loc[t]
       IN  /\ map_chunks' = [map_chunks EXCEPT ![l.chunk].vals[l.idx] = Raw(0, SENTINEL_VALUE)]
           /\ MapSetLoc(t, ModReturn(l, "Done", 0, l.idx))
    /\ UNCHANGED << map_old, map_new, map_log, map_ops >>
    /\ MapFrame

\* set_tombstone: cas_value(addr, val.raw, 0). A remove returns Replaced, an
\* insert goes on probing for an empty entry.
ModSetTombstone(t) ==
    /\ map_loc[t].pc = "set_tombstone"
    /\ LET l == map_loc[t]
           v == ValueNew(l.raw).v
       IN  IF map_chunks[l.chunk].vals[l.idx] = l.raw
           THEN /\ map_chunks' = [map_chunks EXCEPT ![l.chunk].vals[l.idx] = Raw(0, 0)]
                /\ MapSetLoc(t, IF l.mod_op = "Empty" THEN ModReturn(l, "Replaced", v, l.idx)
                                ELSE [l EXCEPT !.pc = "probe", !.replaced = v,
                                               !.idx = l.idx + 1, !.count = l.count + 1])
           ELSE /\ map_chunks' = map_chunks
                /\ MapSetLoc(t, ModReturn(l, "Fail", v, l.idx))
    /\ UNCHANGED << map_old, map_new, map_log, map_ops >>
    /\ MapFrame

\* put_in_empty: cas_value(addr, 0, value); a failed CAS reprobes.
ModPutInEmpty(t) ==
    /\ map_loc[t].pc = "put_in_empty"
    /\ LET l == map_loc[t]
           value == IF l.mod_op = "Sentinel" THEN Raw(0, SENTINEL_VALUE) ELSE l.mod_val
       IN  IF map_chunks[l.chunk].vals[l.idx] = Raw(0, 0)
           THEN /\ map_chunks' = [map_chunks EXCEPT ![l.chunk].vals[l.idx] = value]
                /\ MapSetLoc(t, [l EXCEPT !.pc = "store_key"])
           ELSE /\ map_chunks' = map_chunks
                /\ MapSetLoc(t, [l EXCEPT !.pc = "probe", !.idx = l.idx + 1,
                                          !.count = l.count + 1])
    /\ UNCHANGED << map_old, map_new, map_log, map_ops >>
    /\ MapFrame

\* put_in_empty: atomic_store_relaxed of the key, after the value.
ModStoreKey(t) ==
    /\ map_loc[t].pc = "store_key"
    /\ LET l == map_loc[t]
       IN  /\ map_chunks' = [map_chunks EXCEPT ![l.chunk].keys[l.idx] = l.mod_key]
           /\ MapSetLoc(t, IF l.replaced # 0 THEN ModReturn(l, "Replaced", l.replaced, l.idx)
                           ELSE ModReturn(l, "Done", 0, l.idx))
    /\ UNCHANGED << map_old, map_new, map_log, map_ops >>
    /\ MapFrame

\* insert: the match on the result of modify_entry, and the sentinel an
\* insert writes into the old chunk while a copy is in progress.
InsertAfterModify(t) ==
    /\ map_loc[t].pc = "inserted"
    /\ LET l == map_loc[t]
           result == IF l.res.kind \in { "Replaced", "Fail" } THEN l.res.v ELSE 0
       IN  CASE l.res.kind = "TableFull" -> MapAbort(t, "table_full")
             [] l.res.kind = "Sentinel" ->
                    /\ MapSetLoc(t, [l EXCEPT !.pc = "check_new", !.result = 0])
                    /\ UNCHANGED << map_old, map_new, map_chunks, map_log, map_ops >>
             [] OTHER ->
                    /\ MapSetLoc(t, IF l.copying
                                    THEN ModifyEntry([l EXCEPT !.result = result], l.old_ptr,
                                                     l.key, "Sentinel", Raw(0, 0), "add_occupation")
                                    ELSE [l EXCEPT !.pc = "add_occupation", !.result = result])
                    /\ UNCHANGED << map_old, map_new, map_chunks, map_log, map_ops >>
    /\ MapFrame

\* insert: new_chunk.occupation.fetch_add(1, Relaxed)
InsertKeepOccupation(t) ==
    /\ map_loc[t].pc = "add_occupation"
    /\ MapSetLoc(t, [map_loc[t] EXCEPT !.pc = "check_new"])
    /\ UNCHANGED << map_old, map_new, map_chunks, map_log, map_ops >>
    /\ MapFrame

InsertAddOccupation(t) ==
    /\ map_loc[t].pc = "add_occupation"
    /\ map_chunks' = [map_chunks EXCEPT ![map_loc[t].new_ptr].occupation = @ + 1]
    /\ MapSetLoc(t, [map_loc[t] EXCEPT !.pc = "check_new"])
    /\ UNCHANGED << map_old, map_new, map_log, map_ops >>
    /\ MapFrame

\* remove: the match on the result of modify_entry on the new chunk. retr is
\* set only while a copy is in progress; NotFound goes to the old chunk, which
\* is a null reference when no copy is in progress (a failed debug assertion
\* or a null dereference).
RemoveAfterModify(t) ==
    /\ map_loc[t].pc = "removed"
    /\ LET l == map_loc[t]
       IN  CASE l.res.kind \in { "Done", "Replaced" } ->
                    /\ MapSetLoc(t, IF l.copying
                                    THEN ModifyEntry([l EXCEPT !.result = l.res.v], l.old_ptr,
                                                     l.key, "Sentinel", Raw(0, 0), "check_new")
                                    ELSE [l EXCEPT !.pc = "check_new", !.result = 0])
                    /\ UNCHANGED << map_old, map_new, map_chunks, map_log, map_ops >>
             [] l.res.kind = "NotFound" ->
                    IF l.copying
                    THEN /\ MapSetLoc(t, ModifyEntry([l EXCEPT !.result = 0], l.old_ptr, l.key,
                                                     "Empty", Raw(0, 0), "removed_old"))
                         /\ UNCHANGED << map_old, map_new, map_chunks, map_log, map_ops >>
                    ELSE MapAbort(t, "fault")
             [] OTHER ->
                    /\ MapSetLoc(t, [l EXCEPT !.pc = "check_new", !.result = 0])
                    /\ UNCHANGED << map_old, map_new, map_chunks, map_log, map_ops >>
    /\ MapFrame

\* remove: the match on the result of modify_entry on the old chunk.
RemoveAfterOld(t) ==
    /\ map_loc[t].pc = "removed_old"
    /\ LET l == map_loc[t]
       IN  MapSetLoc(t, [l EXCEPT !.pc = "check_new",
                            !.result = IF l.res.kind \in { "Done", "Replaced" }
                                       THEN l.res.v ELSE 0])
    /\ UNCHANGED << map_old, map_new, map_chunks, map_log, map_ops >>
    /\ MapFrame

\* ensure_write_new: Ok(r) is returned if new_chunk is still the pointer the
\* closure worked on; otherwise the closure runs again. The ChunkRefs of the
\* closure are dropped either way.
WriteCheckNew(t) ==
    /\ map_loc[t].pc = "check_new"
    /\ LET l == map_loc[t]
       IN  IF map_new = l.new_ptr
           THEN MapReturn(t, map_chunks, l.result)
           ELSE /\ map_chunks' = ChunkReleaseAll(map_chunks, l.held)
                /\ MapSetLoc(t, [MapIdleLoc EXCEPT !.pc = "load_new", !.op = l.op,
                                    !.key = l.key, !.value = l.value,
                                    !.since = l.since, !.during = l.during])
                /\ map_log' = map_log
    /\ UNCHANGED << map_old, map_new, map_ops >>
    /\ MapFrame

\* check_resize: Chunk::borrow(old_chunk_ptr)
ResizeBorrow(t) ==
    /\ map_loc[t].pc = "resize_borrow"
    /\ MapBorrow(t, map_loc[t].old_ptr, map_loc[t], "resize_check")
    /\ MapFrame

\* check_resize: occupation > occu_limit, and the allocation of the new chunk
\* when it is.
ResizeCheck(t) ==
    /\ map_loc[t].pc = "resize_check"
    /\ LET l == map_loc[t]
           old == map_chunks[l.old_ptr]
       IN  IF old.occupation > occupation_limit(old.capacity)
           THEN /\ map_chunks' = Append(map_chunks, alloc_chunk(NewCap(old.capacity)))
                /\ MapSetLoc(t, [l EXCEPT !.pc = "resize_cas", !.cr_new = Len(map_chunks) + 1])
           ELSE /\ map_chunks' = ChunkReleaseAll(map_chunks, l.held)
                /\ MapSetLoc(t, [l EXCEPT !.pc = "borrow_new", !.held = << >>])
    /\ UNCHANGED << map_old, map_new, map_log, map_ops >>
    /\ MapFrame

\* check_resize: the CAS of new_chunk. The loser marks its chunk garbage and
\* returns true; the winner borrows the new chunk and starts to copy.
ResizeCasNew(t) ==
    /\ map_loc[t].pc = "resize_cas"
    /\ LET l == map_loc[t]
       IN  IF map_new = l.old_ptr
           THEN /\ map_new' = l.cr_new
                /\ map_chunks' = [ChunkBorrow(map_chunks, l.cr_new) EXCEPT
                                     ![l.cr_new].born = Len(map_log)]
                /\ map_loc' = [u \in MapThreads |->
                      IF u = t THEN [l EXCEPT !.pc = "copy", !.held = Append(@, l.cr_new),
                                              !.addr = 0, !.effective_copy = 0,
                                              !.during = @ \cup { l.cr_new }]
                      ELSE IF map_loc[u].pc \in { "idle", "aborted" } THEN map_loc[u]
                      ELSE [map_loc[u] EXCEPT !.during = @ \cup { l.cr_new }]]
           ELSE /\ map_new' = map_new
                /\ map_chunks' = ChunkReleaseAll(map_chunks, << l.cr_new >> \o l.held)
                /\ MapSetLoc(t, [MapIdleLoc EXCEPT !.pc = "load_new", !.op = l.op,
                                    !.key = l.key, !.value = l.value,
                                    !.since = l.since, !.during = l.during])
    /\ UNCHANGED << map_old, map_log, map_ops >>
    /\ MapFrame

\* check_resize: one entry of the old chunk is read; a live value is inserted
\* primed into the new chunk, everything else is skipped. After the last
\* entry the copies are added to the occupation of the new chunk.
ResizeCopy(t) ==
    /\ map_loc[t].pc = "copy"
    /\ LET l == map_loc[t]
           old == map_chunks[l.old_ptr]
       IN  IF l.addr >= old.capacity
           THEN /\ map_chunks' = [map_chunks EXCEPT ![l.cr_new].occupation = @ + l.effective_copy]
                /\ MapSetLoc(t, [l EXCEPT !.pc = "resize_cas_old"])
                /\ map_log' = map_log
           ELSE LET key == old.keys[l.addr]
                    raw == old.vals[l.addr]
                    value == ValueNew(raw)
                IN  IF key # EMPTY_KEY /\ value.parsed = "Prime"
                    THEN MapAbort(t, "panic")
                    ELSE /\ MapSetLoc(t,
                              IF key # EMPTY_KEY /\ value.parsed = "Val"
                              THEN ModifyEntry([l EXCEPT !.cr_raw = raw], l.cr_new, key,
                                               "AttemptInsert", WithPrime(raw), "copied")
                              ELSE [l EXCEPT !.addr = l.addr + 1])
                         /\ UNCHANGED << map_chunks, map_log >>
    /\ UNCHANGED << map_old, map_new, map_ops >>
    /\ MapFrame

\* check_resize: the match on the result of the AttemptInsert.
ResizeCopied(t) ==
    /\ map_loc[t].pc = "copied"
    /\ LET l == map_loc[t]
       IN  CASE l.res.kind = "Done" ->
                    /\ MapSetLoc(t, [l EXCEPT !.pc = "cas_sentinel"])
                    /\ UNCHANGED << map_old, map_new, map_chunks, map_log, map_ops >>
             [] l.res.kind = "Fail" ->
                    /\ MapSetLoc(t, [l EXCEPT !.pc = "copy", !.addr = l.addr + 1])
                    /\ UNCHANGED << map_old, map_new, map_chunks, map_log, map_ops >>
             [] OTHER -> MapAbort(t, "panic")
    /\ MapFrame

\* check_resize: cas_value(old_address, value.raw, SENTINEL_VALUE); a failed
\* CAS takes the same entry again.
ResizeCasSentinel(t) ==
    /\ map_loc[t].pc = "cas_sentinel"
    /\ LET l == map_loc[t]
       IN  IF map_chunks[l.old_ptr].vals[l.addr] = l.cr_raw
           THEN /\ map_chunks' = [map_chunks EXCEPT
                                     ![l.old_ptr].vals[l.addr] = Raw(0, SENTINEL_VALUE)]
                /\ MapSetLoc(t, [l EXCEPT !.pc = "strip_prime"])
           ELSE /\ map_chunks' = map_chunks
                /\ MapSetLoc(t, [l EXCEPT !.pc = "copy"])
    /\ UNCHANGED << map_old, map_new, map_log, map_ops >>
    /\ MapFrame

\* check_resize: cas_value(entry_addr, primed_val, stripped)
ResizeStripPrime(t) ==
    /\ map_loc[t].pc = "strip_prime"
    /\ LET l == map_loc[t]
           primed_val == WithPrime(l.cr_raw)
       IN  IF map_chunks[l.cr_new].vals[l.res.index] = primed_val
           THEN /\ map_chunks' = [map_chunks EXCEPT
                                     ![l.cr_new].vals[l.res.index] = StripPrime(primed_val)]
                /\ MapSetLoc(t, [l EXCEPT !.pc = "copy", !.addr = l.addr + 1,
                                          !.effective_copy = l.effective_copy + 1])
           ELSE /\ map_chunks' = map_chunks
                /\ MapSetLoc(t, [l EXCEPT !.pc = "copy", !.addr = l.addr + 1])
    /\ UNCHANGED << map_old, map_new, map_log, map_ops >>
    /\ MapFrame

\* check_resize: the CAS of old_chunk, mark_garbage of the old chunk and the
\* drop of the two ChunkRefs; the insert then starts over.
ResizeCasOld(t) ==
    /\ map_loc[t].pc = "resize_cas_old"
    /\ LET l == map_loc[t]
       IN  IF map_old = l.old_ptr
           THEN /\ map_old' = l.cr_new
                /\ map_chunks' = ChunkReleaseAll(map_chunks, << l.old_ptr >> \o l.held)
                /\ MapSetLoc(t, [MapIdleLoc EXCEPT !.pc = "load_new", !.op = l.op,
                                    !.key = l.key, !.value = l.value,
                                    !.since = l.since, !.during = l.during])
                /\ UNCHANGED << map_new, map_log, map_ops >>
           ELSE MapAbort(t, "panic")
    /\ MapFrame

\* The steps of a call that never meets the copy of another thread's resize.
MapOwnStep(t, max, keys, values) ==
    \/ MapCall(t, max, keys, values)
    \/ GetLoadOld(t) \/ GetBorrow(t) \/ GetProbe(t)
    \/ WriteLoadNew(t) \/ WriteLoadOld(t) \/ WriteBorrowNew(t)
    \/ WriteModifyNew(t) \/ ModProbe(t) \/ ModSetTombstone(t)
    \/ ModPutInEmpty(t) \/ ModStoreKey(t) \/ InsertAfterModify(t)
    \/ InsertAddOccupation(t) \/ RemoveAfterModify(t)
    \/ WriteCheckNew(t) \/ ResizeBorrow(t) \/ ResizeCheck(t) \/ ResizeCasNew(t)
    \/ ResizeCopy(t) \/ ResizeCopied(t) \/ ResizeCasSentinel(t) \/ ResizeStripPrime(t)
    \/ ResizeCasOld(t)

\* The steps of get, insert and remove on what a resize in progress shows
\* them: a sentinel in the old chunk, new_chunk different from old_chunk.
MapCopyingStep(t) ==
    \/ GetLoadNew(t) \/ GetBorrowNew(t)
    \/ WriteBorrowOld(t) \/ ModSetSentinel(t) \/ RemoveAfterOld(t)

MapNext ==
    \E t \in MapThreads :
        \/ MapOwnStep(t, MaxMapOps, ConMapKeys, ConMapValues)
        \/ MapCopyingStep(t)

\* One thread: the resize of a call begins and ends inside the call, so that
\* no call finds a copy in progress and the steps of MapCopyingStep are never
\* enabled.
MapSeqNext == \E t \in SeqMapThreads : MapOwnStep(t, MaxSeqMapOps, MapKeys, MapValues)

\* A table of capacity 4 after insert(1, 2), insert(2, 2) and insert(3, 2) by
\* one thread: three slots are taken, slot 0 is empty, and the occupation of
\* 3 is over the limit of 2, so that the next insert resizes.
MaxStaleMapOps == 5

StaleMapKeys == { 1, 4 }

StaleMapValues == { 2 }

StaleCall(n) ==
    [t |-> 1, op |-> "insert", key |-> n, value |-> 2, ret |-> 0, kind |-> "return",
     since |-> n - 1, during |-> {}]

StaleChunk ==
    [alloc_chunk(4) EXCEPT !.keys = (0 :> EMPTY_KEY @@ 1 :> 1 @@ 2 :> 2 @@ 3 :> 3),
                           !.vals = [i \in 0 .. 3 |-> IF i = 0 THEN Raw(0, EMPTY_VALUE)
                                                      ELSE Raw(0, 2)],
                           !.occupation = 3]

MapStaleInit ==
    /\ map_chunks = << StaleChunk >>
    /\ map_old = 1
    /\ map_new = 1
    /\ map_loc = [t \in MapThreads |-> MapIdleLoc]
    /\ map_log = << StaleCall(1), StaleCall(2), StaleCall(3) >>
    /\ map_ops = 3

\* Two more calls on that table. No remove of so short a run finds its key
\* missing from a whole chunk, so that RemoveAfterOld is never enabled.
MapStaleNext ==
    \E t \in MapThreads :
        \/ MapOwnStep(t, MaxStaleMapOps, StaleMapKeys, StaleMapValues)
        \/ GetLoadNew(t) \/ GetBorrowNew(t)
        \/ WriteBorrowOld(t) \/ ModSetSentinel(t)

MapIdle == MapInit({ 1 })

(***************************************************************************)
(* Eventually consistent maps (collections/evmap.rs, envmap.rs).           *)
(* Writers push pairs to a bin (EvMap) or producer cache (EnvMap); refresh *)
(* drains the bins and inserts the pairs into the authoritative map.  A    *)
(* bin is a list of lflist.rs: its content is kept as a sequence, a push   *)
(* and a pop are one step each, and drop_out_all is followed call by call: *)
(* the load of the count, the pops below the threshold or the swap of the  *)
(* head, and the callback on each pair taken.  The authoritative map is a  *)
(* function from keys to values whose insert is one step.                  *)
(***************************************************************************)
NumEvThreads == 2

MaxEvCalls == 3

NumEvBins == 2

\* Buffer capacities of the list of a bin: 8 is EvBin::new, with 4 the swap
\* of drop_out_all is reached with two pairs in a bin.
EvBinCaps == { 4, 8 }

EvThreads == 1 .. NumEvThreads

EvKeys == { 1, 2 }

\* Arguments of refresh: a key that may be in a bin, and 0.
EvLookups == { 0, 1, 2 }

EvCpus == 0 .. 2

\* EvNode.cpu_mask of a node with NumEvBins bins.
EvCpuMask == NumEvBins - 1

\* The value of the n-th push: every push writes a value of its own.
EvValue(n) == n + 2

EvPushes == { i \in 1 .. Len(ev_log) : ev_log[i].op = "push" }

EvIdleLoc ==
    [ pc |-> "idle", op |-> "none", lookup |-> 0, lookup_res |-> 0, bin |-> 1,
      path |-> "none", pops |-> 0, taken |-> << >>, items |-> << >>, since |-> 0 ]

\* EvMap::new / EnvMap::new: empty bins, empty map.
EvInit(caps) ==
    /\ ev_cap \in caps
    /\ ev_bins = [ b \in 1 .. NumEvBins |-> << >> ]
    /\ ev_map = [ k \in EvKeys |-> 0 ]
    /\ ev_loc = [ t \in EvThreads |-> EvIdleLoc ]
    /\ ev_log = << >>

EvSetLoc(t, l) == ev_loc' = [ev_loc EXCEPT ![t] = l]

EvCallsMade == Len(ev_log) + Cardinality({ t \in EvThreads : ev_loc[t].pc # "idle" })

\* The bin insert_to_cpu pushes to: bins[cpu_id & cpu_mask].
EvBinOfCpu(cpu) == (cpu % (EvCpuMask + 1)) + 1

\* pop_threshold of drop_out_all on a bin.
EvPopThreshold == Min(ev_cap \div 2, 64)

\* The end of a refresh: the log keeps the map and the bins as they are when
\* the call returns.
EvReturn(t, ret, short) ==
    /\ ev_log' = Append(ev_log,
           [ t |-> t, op |-> ev_loc[t].op, key |-> ev_loc[t].lookup, value |-> 0,
             ret |-> ret, short |-> short, since |-> ev_loc[t].since,
             map |-> ev_map, bins |-> ev_bins ])
    /\ EvSetLoc(t, EvIdleLoc)

\* EvMap::insert_to_cpu / Producer::insert: the push of one pair.
EvInsertToCpu(t, key, cpu) ==
    /\ ev_loc[t].pc = "idle"
    /\ EvCallsMade < MaxEvCalls
    /\ LET v == EvValue(Cardinality(EvPushes))
           b == EvBinOfCpu(cpu)
       IN  /\ ev_bins' = [ev_bins EXCEPT ![b] = Append(@, [k |-> key, v |-> v])]
           /\ ev_log' = Append(ev_log,
                  [ t |-> t, op |-> "push", key |-> key, value |-> v, ret |-> 0,
                    short |-> FALSE, since |-> Len(ev_log),
                    map |-> ev_map, bins |-> ev_bins' ])
    /\ UNCHANGED <<ev_map, ev_loc>>
    /\ EvFrame

\* EvMap::refresh(lookup) is called.
EvRefreshCall(t, lookup) ==
    /\ ev_loc[t].pc = "idle"
    /\ EvCallsMade < MaxEvCalls
    /\ EvSetLoc(t, [EvIdleLoc EXCEPT !.pc = "drop_out_all", !.op = "refresh",
                                     !.lookup = lookup, !.since = Len(ev_log)])
    /\ UNCHANGED <<ev_bins, ev_map, ev_log>>
    /\ EvFrame

\* EnvMap::refresh() is called.
EnvRefreshCall(t) ==
    /\ ev_loc[t].pc = "idle"
    /\ EvCallsMade < MaxEvCalls
    /\ EvSetLoc(t, [EvIdleLoc EXCEPT !.pc = "drop_out_all", !.op = "env_refresh",
                                     !.since = Len(ev_log)])
    /\ UNCHANGED <<ev_bins, ev_map, ev_log>>
    /\ EvFrame

\* drop_out_all on the current bin: count.load, return at 0, the pops below
\* the threshold, the swap otherwise.
EvDropOutAll(t) ==
    LET l == ev_loc[t]
        count == Len(ev_bins[l.bin])
    IN  /\ l.pc = "drop_out_all"
        /\ EvSetLoc(t, IF count = 0 THEN [l EXCEPT !.pc = "dropped"]
                       ELSE IF count < EvPopThreshold
                            THEN [l EXCEPT !.pc = "pop", !.path = "pop",
                                           !.pops = 2 * EvPopThreshold]
                            ELSE [l EXCEPT !.pc = "swap"])
        /\ UNCHANGED <<ev_bins, ev_map, ev_log>>
        /\ EvFrame

\* drop_out_all, one round of `for _ in 0..pop_amount`: self.pop().
EvPop(t) ==
    LET l == ev_loc[t]
        bin == ev_bins[l.bin]
    IN  /\ l.pc = "pop"
        /\ IF l.pops = 0
           THEN /\ EvSetLoc(t, [l EXCEPT !.pc = "swap"])
                /\ UNCHANGED ev_bins
           ELSE IF bin = << >>
                THEN /\ EvSetLoc(t, [l EXCEPT !.pc = "dropped"])
                     /\ UNCHANGED ev_bins
                ELSE /\ ev_bins' = [ev_bins EXCEPT ![l.bin] = SubSeq(bin, 1, Len(bin) - 1)]
                     /\ EvSetLoc(t, [l EXCEPT !.pc = "retain", !.pops = @ - 1,
                                              !.taken = << bin[Len(bin)] >>])
        /\ UNCHANGED <<ev_map, ev_log>>
        /\ EvFrame

\* drop_out_all: head.swap(new_head_buffer), every pair of the bin is taken.
EvSwapHead(t) ==
    LET l == ev_loc[t]
    IN  /\ l.pc = "swap"
        /\ ev_bins' = [ev_bins EXCEPT ![l.bin] = << >>]
        /\ EvSetLoc(t, [l EXCEPT !.pc = IF ev_bins[l.bin] = << >> THEN "dropped" ELSE "retain",
                                 !.path = "swap", !.taken = ev_bins[l.bin]])
        /\ UNCHANGED <<ev_map, ev_log>>
        /\ EvFrame

\* The callback of refresh on one pair taken: EvMap notes the value of the
\* key looked up and inserts the pair into the map; EnvMap collects the pair.
EvRetain(t) ==
    LET l == ev_loc[t]
        pair == Head(l.taken)
        rest == Tail(l.taken)
        next == IF rest # << >> THEN "retain"
                ELSE IF l.path = "pop" THEN "pop" ELSE "dropped"
    IN  /\ l.pc = "retain"
        /\ IF l.op = "refresh"
           THEN /\ ev_map' = [ev_map EXCEPT ![pair.k] = pair.v]
                /\ EvSetLoc(t, [l EXCEPT !.pc = next, !.taken = rest,
                       !.lookup_res = IF l.lookup = pair.k THEN pair.v ELSE @])
           ELSE /\ EvSetLoc(t, [l EXCEPT !.pc = next, !.taken = rest,
                                         !.items = Append(@, pair)])
                /\ UNCHANGED ev_map
        /\ UNCHANGED <<ev_bins, ev_log>>
        /\ EvFrame

\* EvMap::refresh after the drop_out_all of one bin: `any` stops at the first
\* bin that made lookup_res non-zero and goes on to the next bin otherwise.
EvAny(t) ==
    LET l == ev_loc[t]
    IN  /\ l.pc = "dropped"
        /\ l.op = "refresh"
        /\ IF l.lookup_res # 0
           THEN EvReturn(t, l.lookup_res, l.bin < NumEvBins)
           ELSE IF l.bin < NumEvBins
                THEN /\ EvSetLoc(t, [l EXCEPT !.pc = "drop_out_all", !.bin = @ + 1,
                                              !.path = "none"])
                     /\ UNCHANGED ev_log
                ELSE EvReturn(t, 0, FALSE)
        /\ UNCHANGED <<ev_bins, ev_map>>
        /\ EvFrame

\* EnvMap::refresh after the drop_out_all of one producer cache: the next
\* cache, and the inserts once every cache was drained.
EnvCollect(t) ==
    LET l == ev_loc[t]
    IN  /\ l.pc = "dropped"
        /\ l.op = "env_refresh"
        /\ EvSetLoc(t, IF l.bin < NumEvBins
                       THEN [l EXCEPT !.pc = "drop_out_all", !.bin = @ + 1, !.path = "none"]
                       ELSE [l EXCEPT !.pc = "insert_items"])
        /\ UNCHANGED <<ev_bins, ev_map, ev_log>>
        /\ EvFrame

\* EnvMap::refresh: `for (k, v) in items { self.map.insert(k, v) }`.
EnvInsertItems(t) ==
    LET l == ev_loc[t]
    IN  /\ l.pc = "insert_items"
        /\ IF l.items = << >>
           THEN /\ EvReturn(t, 0, FALSE)
                /\ UNCHANGED ev_map
           ELSE /\ ev_map' = [ev_map EXCEPT ![Head(l.items).k] = Head(l.items).v]
                /\ EvSetLoc(t, [l EXCEPT !.items = Tail(@)])
                /\ UNCHANGED ev_log
        /\ UNCHANGED ev_bins
        /\ EvFrame

EvNext ==
    \E t \in EvThreads :
        \/ \E key \in EvKeys, cpu \in EvCpus : EvInsertToCpu(t, key, cpu)
        \/ \E lookup \in EvLookups : EvRefreshCall(t, lookup)
        \/ EnvRefreshCall(t)
        \/ EvDropOutAll(t)
        \/ EvPop(t)
        \/ EvSwapHead(t)
        \/ EvRetain(t)
        \/ EvAny(t)
        \/ EnvCollect(t)
        \/ EnvInsertItems(t)

(***************************************************************************)
(* The capacity a resize chooses (lfmap.rs, head of Table::check_resize):  *)
(* the function from the old chunk's capacity and occupation to the        *)
(* capacity of the chunk allocated, over capacities on both sides of 2048. *)
(***************************************************************************)
\* log2 of the largest capacity drawn.
MaxCapLog == 13

\* The capacity from which check_resize doubles.
ResizeDoubleFrom == 2048

\* Capacities of a chunk: powers of two (the probe masks with capacity - 1).
RsCaps == { Pow2(n) : n \in 0 .. MaxCapLog }

\* Occupations around the limit of a chunk of capacity cap.
RsOccupations(cap) ==
    { o \in { 0, occupation_limit(cap) - 1, occupation_limit(cap),
              occupation_limit(cap) + 1, cap - 1, cap } : o >= 0 /\ o <= cap }

RsInit ==
    /\ rs_pc = "start"
    /\ rs_cap \in RsCaps
    /\ rs_occupation \in RsOccupations(rs_cap)
    /\ rs_new_cap = 0

\* No call of check_resize is being followed.
RsIdle ==
    /\ rs_pc = "start"
    /\ rs_cap = 1
    /\ rs_occupation = 0
    /\ rs_new_cap = 0

\* check_resize: `if occupation > occu_limit`, then alloc_chunk(new_cap).
RsResize ==
    /\ rs_pc = "start"
    /\ rs_occupation > occupation_limit(rs_cap)
    /\ rs_pc' = "resized"
    /\ rs_new_cap' = NewCap(rs_cap)
    /\ UNCHANGED <<rs_cap, rs_occupation>>
    /\ RsFrame

\* check_resize: the occupation is within the limit, nothing is allocated.
RsKeep ==
    /\ rs_pc = "start"
    /\ rs_occupation <= occupation_limit(rs_cap)
    /\ rs_pc' = "kept"
    /\ UNCHANGED <<rs_cap, rs_occupation, rs_new_cap>>
    /\ RsFrame

RsNext == RsResize \/ RsKeep

\* No call is made on the eventually consistent maps.
EvIdle == EvInit({ 8 })

\* ---------------------------------------------------------------------------
\* Layout of the node heaps (small_heap.rs: total_heap, node_shift_bits,
\* gen_numa_node_list, addr_numa_id) for every node count, and the bump
\* cursor of one node followed for a few pages.
\* ---------------------------------------------------------------------------
MaxNumaNodes == 6

\* Pages taken from the cursor; fewer than the share of one node.
MaxNumaPages == 5

NumaNodeCounts == 1 .. MaxNumaNodes

\* The statics of a machine of one of `counts` nodes, and the cursor of one
\* of its nodes as gen_numa_node_list leaves it.
NmInit(counts) ==
    /\ nm_nodes \in counts
    /\ nm_node \in 0 .. nm_nodes - 1
    /\ nm_pos = node_base(nm_nodes, nm_node)
    /\ nm_ret = 0

\* The layout is not looked at.
NmIdle == NmInit({ 1 })

\* allocate_from_common: bumper.fetch_add(page_size, Relaxed)
NmBump ==
    /\ nm_pos - node_base(nm_nodes, nm_node) < MaxNumaPages * SYS_PAGE_SIZE
    /\ nm_ret' = nm_pos
    /\ nm_pos' = nm_pos + SYS_PAGE_SIZE
    /\ UNCHANGED <<nm_nodes, nm_node>>
    /\ NmFrame

NmNext == NmBump

\* The collections of a specification that makes no call on them.
CollectionsIdle == ExInit /\ MapIdle /\ EvIdle /\ RsIdle /\ NmIdle

(***************************************************************************)
(* Specifications.                                                         *)
(***************************************************************************)
vars ==
    <<bumpVars, heapVars, apiVars, smallVars, sizeClassVars, callocVars, pagedVars,
      collectionVars>>

BumpSpecInit == BumpInit /\ HeapInit /\ ApiInit /\ SmallInit /\ SizeClassIdle /\ CallocIdle /\ ListIdle
    /\ CollectionsIdle

SpecBump == BumpSpecInit /\ [][BumpNext]_vars

HeapSpecInit == BumpInit /\ HeapInit /\ ApiInit /\ SmallInit /\ SizeClassIdle /\ CallocIdle /\ ListIdle
    /\ CollectionsIdle

SpecBumpHeap == HeapSpecInit /\ [][HeapNext]_vars

SpecBumpHeapCorrupt == HeapSpecInit /\ [][HeapCorruptNext]_vars

ApiSpecInit == BumpFrozen /\ HeapInit /\ ApiInit /\ SmallInit /\ SizeClassIdle /\ CallocIdle /\ ListIdle
    /\ CollectionsIdle

SpecApi == ApiSpecInit /\ [][ApiNext]_vars

SmallSpecInit == BumpFrozen /\ HeapInit /\ ApiInit /\ SmallInit /\ SizeClassIdle /\ CallocIdle /\ ListIdle
    /\ CollectionsIdle

SpecSmall == SmallSpecInit /\ [][SmallNext]_vars

SmallStraySpecInit == BumpFrozen /\ HeapInit /\ ApiInit /\ SmallInit /\ SizeClassIdle /\ CallocIdle /\ ListIdle
    /\ CollectionsIdle

SpecSmallStray == SmallStraySpecInit /\ [][SmallStrayNext]_vars

SizeClassSpecInit == BumpFrozen /\ HeapInit /\ ApiInit /\ SmallInit /\ SizeClassInit /\ CallocIdle /\ ListIdle
    /\ CollectionsIdle

SpecSizeClass == SizeClassSpecInit /\ [][SizeClassNext]_vars

CallocSpecInit ==
    BumpFrozen /\ HeapInit /\ ApiInit /\ SmallInit /\ SizeClassIdle /\ CallocInit
        /\ ListIdle /\ CollectionsIdle

SpecCalloc == CallocSpecInit /\ [][CallocNext]_vars

IdleButList ==
    BumpFrozen /\ HeapInit /\ ApiInit /\ SmallInit /\ SizeClassIdle /\ CallocIdle
        /\ CollectionsIdle

IdleAllocator == BumpFrozen /\ HeapInit /\ ApiInit /\ SmallInit /\ SizeClassIdle
                     /\ CallocIdle /\ ListIdle

ExSpecInit == IdleAllocator /\ CollectionsIdle

SpecExchange == ExSpecInit /\ [][ExNext]_vars

MapSpecInit == IdleAllocator /\ ExInit /\ MapInit(MapCaps) /\ EvIdle /\ RsIdle /\ NmIdle

SpecMap == MapSpecInit /\ [][MapNext]_vars

MapStaleSpecInit == IdleAllocator /\ ExInit /\ MapStaleInit /\ EvIdle /\ RsIdle /\ NmIdle

SpecMapStale == MapStaleSpecInit /\ [][MapStaleNext]_vars

SpecMapSeq == MapSpecInit /\ [][MapSeqNext]_vars

EvSpecInit == IdleAllocator /\ ExInit /\ MapIdle /\ EvInit(EvBinCaps) /\ RsIdle /\ NmIdle

SpecEvMap == EvSpecInit /\ [][EvNext]_vars

RsSpecInit == IdleAllocator /\ ExInit /\ MapIdle /\ EvIdle /\ RsInit /\ NmIdle

SpecResizeCap == RsSpecInit /\ [][RsNext]_vars

NmSpecInit == IdleAllocator /\ ExInit /\ MapIdle /\ EvIdle /\ RsIdle /\ NmInit(NumaNodeCounts)

SpecNodeLayout == NmSpecInit /\ [][NmNext]_vars

ListSpecInit == IdleButList /\ ListInit(ListCaps)

SpecList == ListSpecInit /\ [][ListNext]_vars

ListSeqSpecInit == IdleButList /\ ListInit(SeqCaps)

SpecListSeq == ListSeqSpecInit /\ [][ListSeqNext]_vars

\* C1: every range returned by bump_allocate lies inside one reserved region
\* of HEAP_VIRT_SIZE bytes, and the ranges returned by two successful calls
\* are disjoint.
RangeInRegion(r) ==
    \E b \in regions : b <= r[1] /\ r[1] + r[2] <= b + HEAP_VIRT_SIZE

RangesDisjoint(r, s) == r[1] + r[2] <= s[1] \/ s[1] + s[2] <= r[1]

C1_BumpRangesDisjoint ==
    /\ \A r \in allocated : RangeInRegion(r)
    /\ \A r \in allocated : \A s \in allocated : r # s => RangesDisjoint(r, s)

\* C5: for every address a returned by alloc, from a tier free list or freshly
\* bumped, the word in front of a has bit 0 set and its remaining bits are a
\* recorded size of at least the requested size.
BookmarkOf(a) == mem[a - WordSize]

C5_BookmarkFlagAndSize ==
    \A o \in hlive :
        /\ BookmarkOf(o.addr) % 2 = 1
        /\ BookmarkOf(o.addr) - (BookmarkOf(o.addr) % 2) >= o.layout.size

C5_Witness ==
    /\ hlast.op = "alloc"
    /\ hlast.from_free
    /\ \E o \in hlive : o.addr = hlast.ret /\ BookmarkOf(o.addr) % 2 = 1

\* C7: for every layout whose size class has a free list, alloc(layout) = a,
\* dealloc(a, layout), alloc(layout) returns a again; allocations of other
\* size classes in between do not change that.
C7_DeallocThenAllocReuses ==
    (hlast.op = "alloc" /\ hlast.expect # 0) => hlast.ret = hlast.expect

\* C3: a public call that reaches the guard with INNER_CALL clear sets the
\* flag, goes to the generic heap and has cleared the flag when it returns;
\* one that reaches the guard with the flag set goes to the bump heap and
\* leaves the flag set; no call entered with the flag set is served by the
\* small heap.  (nu_malloc(0) and nu_free(null) return in front of the guard;
\* a call that panics inside the heap does not return and clears nothing.)
GuardedAsClaimed(f) ==
    /\ ~f.entry_flag => f.route = "generic"
    /\ f.entry_flag => f.route = "bump" /\ "small" \notin f.served

C3_GuardRoutesCalls ==
    /\ \A t \in ApiThreads : \A i \in 1 .. Len(api_stack[t]) :
          api_stack[t][i].route # "none" =>
              GuardedAsClaimed(api_stack[t][i]) /\ INNER_CALL[t]
    /\ api_done.route # "none" =>
          /\ GuardedAsClaimed(api_done)
          /\ ~api_done.fault => api_done.exit_flag = api_done.entry_flag

C3_Witness ==
    /\ api_done.fn = "nu_malloc"
    /\ api_done.entry_flag
    /\ api_done.served = { "bump" }
    /\ api_stack[api_done.thread] # <<>>
    /\ api_stack[api_done.thread][1].route = "generic"

\* C3 as stated: every public call entered with the flag clear sets it and
\* goes to the generic heap, every call entered with the flag set goes to the
\* bump heap.
C3_EveryCallDispatches ==
    api_done.fn # "none" =>
        GuardedAsClaimed(api_done) /\ api_done.exit_flag = api_done.entry_flag

\* C4: generic free sends an object whose leading word has bit 0 set to the
\* bump / large path and one whose bit 0 is clear to the small-heap path; an
\* object written by make_bookmark(is_bump = true) is freed by the bump path.
C4_FreeRoutedByFlagBit ==
    \A r \in api_freed :
        /\ r.word % 2 = 1 => r.path = "large"
        /\ r.word % 2 = 0 => r.path = "small"
        /\ (r.heap = "made" /\ r.made_bump) => r.path = "large"

\* Helpers of the small heap properties.
Occ(seq, x) == Cardinality({ k \in 1 .. Len(seq) : seq[k] = x })

InSeq(seq, x) == \E k \in 1 .. Len(seq) : seq[k] = x

RemoteFreeStep(t) ==
    LET o == IF sloc[t].obj.tid # 0 THEN sloc[t].obj ELSE sloc'[t].obj
        X == ThreadNode(t)
        Y == ThreadNode(o.tid)
    IN  (o.tid # 0 /\ X # Y /\ spc'[t] # spc[t]) =>
            /\ common_free'[X] = common_free[X]
            /\ pending_free'[X] = pending_free[X]
            /\ \A u \in SmallThreads : ThreadNode(u) = X => t_free'[u] = t_free[u]
            /\ spc[t] = "idle" => pending_free' = pending_free
            /\ spc[t] = "free_insert" =>
                  /\ pending_free' = pending_free
                  /\ (o.addr \in DOMAIN objects'[Y]) <=> (spc'[t] = "free_push")
            /\ spc[t] = "free_push" =>
                  /\ pending_free'[Y] = <<o.addr>> \o pending_free[Y]
                  /\ t_free' = t_free

C8_RemoteFreeOnlyPends == [][\A t \in UserThreads : RemoteFreeStep(t)]_vars

C8_Witness ==
    \E n \in Nodes :
        /\ pending_free[n] # <<>>
        /\ \E o \in UserThreads : ThreadNode(o) = n /\ tstate[o] = "alive"
        /\ \A t \in SmallThreads, i \in STiers :
              ThreadNode(t) # n => ~InSeq(t_free[t][i], Head(pending_free[n]))

\* C9: a cross-node free the sentinel has applied leaves the address on a
\* free list of the owning node: the common list of its tier, or the list of
\* a thread of the node that has not exited.
OnNodeFreeList(n, a) ==
    \/ \E i \in STiers : InSeq(common_free[n][i], a)
    \/ \E u \in SmallThreads, i \in STiers :
          /\ ThreadNode(u) = n
          /\ tstate[u] # "exited"
          /\ InSeq(t_free[u][i], a)
    \/ \E u \in SmallThreads :
          ThreadNode(u) = n /\ spc[u] = "drop_link" /\ InSeq(sloc[u].list, a)

C9_AppliedOnOwnerNode ==
    \A a \in sapplied : OnNodeFreeList(addr_numa_id(a), a)

\* C10: once a thread has exited, every address pushed onto its free lists
\* before or during the exit is in the node's common list of the tier exactly
\* once, and the reserved page it handed back is in the node's reserved queue.
C10_ExitHandsBack ==
    \A t \in UserThreads :
        tstate[t] = "exited" =>
            /\ \A r \in sowed[t] :
                  Occ(common_free[ThreadNode(t)][r.tier], r.addr) = 1
            /\ \A r \in sowed_pages[t] :
                  Occ(common_reserved[ThreadNode(t)][r.tier], r.page) = 1

\* C11: a small-heap free of an address outside the heap range, or with no
\* entry in the owning node's index, returns false, and no step of the call
\* changes a free list or a pending-free queue.
StrayFreeStep ==
    /\ sstray' # sstray => sstray'.ret = "false"
    /\ (sstray' # sstray \/ \E t \in UserThreads : sloc[t].stray /\ spc'[t] # spc[t]) =>
          /\ t_free' = t_free
          /\ common_free' = common_free
          /\ pending_free' = pending_free

C11_StrayFreeReturnsFalse == [][StrayFreeStep]_vars

\* C12: tier i (0 <= i < 16) has size 2^(i+1), the sizes are strictly
\* increasing and start at 2, and for every request size s in 1 .. 2^16
\* size_class_index_from_size(s) returns, without underflow, the smallest
\* tier whose size is at least s.
SizeClassTable ==
    /\ Len(size_classes) = NUM_SIZE_CLASS
    /\ size_classes[1] = 2
    /\ \A i \in 0 .. NUM_SIZE_CLASS - 1 : size_classes[i + 1] = Pow2(i + 1)
    /\ \A i \in 1 .. NUM_SIZE_CLASS - 1 : size_classes[i] < size_classes[i + 1]

SmallestTier(s, i) ==
    /\ i \in 0 .. NUM_SIZE_CLASS - 1
    /\ size_classes[i + 1] >= s
    /\ \A j \in 0 .. NUM_SIZE_CLASS - 1 : size_classes[j + 1] >= s => i <= j

C12_SizeClassIndex ==
    /\ SizeClassTable
    /\ sc_fn # "none" => ~sc_ret.underflow /\ SmallestTier(sc_size, sc_ret.index)

\* C13: in every reachable state of a bump heap instance, the states inside a
\* concurrent region rotation included, base <= tail <= base + HEAP_VIRT_SIZE.
C13_TailWithinRegion == base <= tail /\ tail <= base + HEAP_VIRT_SIZE

\* C14: realloc(p, n) with p not null, n > 0 and the recorded size of p at
\* least n returns p and has allocated nothing and freed nothing.
C14_ReallocShrinkNoOp ==
    (/\ api_done.fn = "nu_realloc"
     /\ api_done.ptr # NULL_PTR
     /\ api_done.size > 0
     /\ api_done.old_size >= api_done.size) =>
        /\ ~api_done.fault
        /\ api_done.ret = api_done.ptr
        /\ api_done.served = {}

\* C15: for every size s, 0 included, nu_realloc(null, s) behaves as
\* nu_malloc(s): for s = 0 it returns null and reaches no heap (no size-class
\* lookup), for s > 0 it returns a fresh block of the heap nu_malloc(s) uses.
C15_ReallocNullIsMalloc ==
    (api_done.fn = "nu_realloc" /\ api_done.ptr = NULL_PTR) =>
        /\ ~api_done.fault
        /\ api_done.size = 0 =>
              api_done.ret = NULL_PTR /\ api_done.served = {}
        /\ api_done.size > 0 =>
              /\ api_done.ret # NULL_PTR
              /\ api_done.served = { MallocHeap(api_done.route, api_done.size) }

\* C16: every non-null block nu_calloc(n, s) returns has all its n * s bytes
\* zero-filled, and nothing is written when the allocation returned null.
C16_CallocZeroFills ==
    (cal_pc = "done" /\ ~cal_ret.fault) =>
        /\ cal_ret.ptr # NULL_PTR =>
              /\ ~MulOverflows(cal_args.nmemb, cal_args.size)
              /\ cal_block.zeroed = WrappingMul(cal_args.nmemb, cal_args.size)
        /\ cal_ret.ptr = NULL_PTR => cal_ret.null_writes = UsizeZero


\* A frame of nu_malloc(0) or of nu_free(null).
ZeroCall(f) ==
    \/ f.fn = "nu_malloc" /\ f.size = 0
    \/ f.fn = "nu_free" /\ f.ptr = NULL_PTR

\* A step of such a call, entry or return: no flag and no heap state changes.
ZeroCallFrame ==
    /\ INNER_CALL' = INNER_CALL
    /\ api_objs' = api_objs /\ api_next' = api_next /\ api_freed' = api_freed
    /\ UNCHANGED <<bumpVars, heapVars, smallVars>>

ZeroCallStep ==
    \A t \in ApiThreads :
        /\ (Len(api_stack'[t]) > Len(api_stack[t])
              /\ ZeroCall(api_stack'[t][Len(api_stack'[t])])) =>
              /\ ZeroCallFrame
              /\ api_stack'[t][Len(api_stack'[t])].done
              /\ api_stack'[t][Len(api_stack'[t])].route = "none"
        /\ (Len(api_stack'[t]) < Len(api_stack[t]) /\ ZeroCall(ApiTop(t))) =>
              /\ ZeroCallFrame
              /\ api_done'.thread = t
              /\ api_done'.ret = NULL_PTR
              /\ api_done'.served = {}
              /\ ~api_done'.fault
              /\ api_done'.exit_flag = api_done'.entry_flag

\* C17: nu_malloc(0) returns null and nu_free(null) returns at once, without
\* entering a heap; neither step of such a call changes the reentrancy flag
\* of any thread, the set of live objects, the allocation cursor or the
\* record of frees.
C17_ZeroCallsAreNoOps == [][ZeroCallStep]_vars

\* C17 witness: with a live object and the flag of the thread set,
\* nu_free(null) has returned and a nu_malloc(0) of another thread is at its
\* return.
C17_Witness ==
    /\ api_done.fn = "nu_free" /\ api_done.ptr = NULL_PTR
    /\ api_done.entry_flag /\ api_done.exit_flag
    /\ api_objs # {}
    /\ \E t \in ApiThreads :
          /\ api_stack[t] # <<>>
          /\ ApiTop(t).fn = "nu_malloc" /\ ApiTop(t).size = 0 /\ ApiTop(t).done


\* The flags pushed so far and the positions of the pops that returned one.
PushedFlags == { pl_log[i].v : i \in { j \in DOMAIN pl_log : pl_log[j].op = "push" } }

PopsOfSome == { j \in DOMAIN pl_log : pl_log[j].op = "pop" /\ pl_log[j].v # 0 }

\* C18: once every concurrent push and pop has returned and the list has
\* been popped until pop returned None, the pops returned exactly the flags
\* pushed, each once: none is lost and none is returned twice.
C18_PagedListConserves ==
    pl_phase = "done" =>
        /\ { pl_log[j].v : j \in PopsOfSome } = PushedFlags
        /\ Cardinality(PopsOfSome) = Cardinality(PushedFlags)


\* The number of push calls in the log.
NumPushed == Cardinality({ j \in DOMAIN pl_log : pl_log[j].op = "push" })

\* The log is n pushes followed by pops only: v1 .. vn pushed with no
\* intervening pop, then popped.
PushesThenPops ==
    \A j \in DOMAIN pl_log :
        pl_log[j].op = IF j <= NumPushed THEN "push" ELSE "pop"

\* C19: on one thread, after pushing v1 .. vn with n larger than the
\* capacity of one buffer and no pop in between, the i-th pop returns
\* v(n+1-i) for i <= n, and every pop after the n-th returns None.
C19_LifoAcrossBuffers ==
    (PushesThenPops /\ NumPushed > pl_list.buffer_cap) =>
        \A i \in 1 .. Len(pl_log) - NumPushed :
            pl_log[NumPushed + i].v =
                IF i <= NumPushed THEN pl_log[NumPushed + 1 - i].v ELSE 0

\* C19 witness: three flags pushed into buffers of two slots, then four
\* pops have returned: the three flags and None.
C19_Witness ==
    /\ PushesThenPops
    /\ pl_list.buffer_cap = 2
    /\ NumPushed = 3
    /\ Len(pl_log) = 7
    /\ Len(pl_bufs) = 2
    /\ pl_bufs[2].freed
    /\ pl_loc[1].pc = "idle"


\* The flags the list holds after the first i entries of the log: pushed,
\* and neither popped nor handed to the callback.
HeldAfter(i) ==
    { pl_log[j].v : j \in { k \in 1 .. i : pl_log[k].op = "push" } }
        \ { pl_log[j].v : j \in { k \in 1 .. i : pl_log[k].op \in { "pop", "cb" } } }

\* The call of the drop_out_all that returned at position j of the log.
CallOf(j) ==
    CHOOSE i \in 1 .. j - 1 :
        /\ pl_log[i].op = "drop_call"
        /\ \A k \in i + 1 .. j - 1 : pl_log[k].op = "cb"

\* C20: a drop_out_all on the list of one thread calls the callback once for
\* each flag the list held at the call and for nothing else; when it has
\* returned count() is 0 and a pop that follows returns None; and as long as
\* flags were only pushed, count() is their number.
C20_DropOutAllDrains ==
    /\ \A j \in DOMAIN pl_log :
          pl_log[j].op = "drop_ret" =>
              LET i == CallOf(j)
              IN  /\ { pl_log[k].v : k \in i + 1 .. j - 1 } = HeldAfter(i)
                  /\ j - 1 - i = Cardinality(HeldAfter(i))
                  /\ j = Len(pl_log) => pl_list.count = 0
                  /\ (j < Len(pl_log) /\ pl_log[j + 1].op = "pop") => pl_log[j + 1].v = 0
    /\ ((\A j \in DOMAIN pl_log : pl_log[j].op = "push") /\ pl_loc[1].pc = "idle") =>
          pl_list.count = Len(pl_log)

\* C20 witness: with buffers of four slots (pop threshold 2), a drop_out_all
\* of one flag (below the threshold: it pops), then three pushes and a
\* drop_out_all of three flags (above: it swaps the head and walks the
\* chain), then a pop that returned None.
C20_Witness ==
    /\ pl_list.buffer_cap = 4
    /\ [j \in DOMAIN pl_log |-> pl_log[j].op] =
          << "push", "drop_call", "cb", "drop_ret",
             "push", "push", "push", "drop_call", "cb", "cb", "cb", "drop_ret", "pop" >>
    /\ pl_list.count = 0
    /\ Len(pl_bufs) = 2

\* The calls of the exchange slot that have ended, as <<thread, index>>.
ExEnded == { c \in ExThreads \X (1 .. MaxExCalls) : c[2] <= Len(ex_log[c[1]]) }

\* How many ended calls returned the datum d.
ExReturnsOf(d) == Cardinality({ c \in ExEnded : ex_log[c[1]][c[2]].out = d })

\* C21: every exchange(d) call on one cell returns one datum (it ends with Ok
\* or Err, never in a panic); a call that ends with Err returns its own
\* input; and once all calls have returned, every submitted datum has been
\* returned by exactly one call.
C21_ExchangeConserves ==
    /\ \A t \in ExThreads : ex_loc[t].pc # "panicked"
    /\ \A c \in ExEnded :
           ex_log[c[1]][c[2]].kind = "Err" =>
               ex_log[c[1]][c[2]].out = ex_log[c[1]][c[2]].input
    /\ (\A t \in ExThreads : ex_loc[t].pc = "idle" /\ Len(ex_log[t]) = MaxExCalls) =>
           \A c \in ExEnded : ExReturnsOf(ex_log[c[1]][c[2]].input) = 1

\* The inserts and removes of key k that returned before position i of the log.
MapWrites(i, k) ==
    { j \in 1 .. i - 1 : /\ map_log[j].key = k
                         /\ map_log[j].op \in { "insert", "remove" }
                         /\ map_log[j].kind = "return" }

\* What the calls before position i left for key k: the value of the last
\* insert, 0 when there is none or a remove came after it.
MapExpected(i, k) ==
    IF MapWrites(i, k) = {} THEN 0
    ELSE LET j == CHOOSE x \in MapWrites(i, k) : \A y \in MapWrites(i, k) : y <= x
         IN  IF map_log[j].op = "insert" THEN map_log[j].value ELSE 0

\* C22: with one thread, every get(k) returns, and returns the value of the
\* most recent insert(k, v) that no remove(k) followed, none (0) otherwise,
\* whether or not the calls before it resized the table.
C22_RoundTrip ==
    \A i \in 1 .. Len(map_log) :
        map_log[i].op = "get" =>
            /\ map_log[i].kind = "return"
            /\ map_log[i].ret = MapExpected(i, map_log[i].key)

\* C22 witness: a get returns the second of two values inserted for its key,
\* after a resize.
C22_Witness ==
    /\ Len(map_chunks) > 1
    /\ \E i, j, n \in 1 .. Len(map_log) :
          /\ i < j /\ j < n
          /\ map_log[i].op = "insert" /\ map_log[j].op = "insert" /\ map_log[n].op = "get"
          /\ map_log[i].key = map_log[n].key /\ map_log[j].key = map_log[n].key
          /\ map_log[i].value # map_log[j].value
          /\ map_log[n].ret = map_log[j].value

\* No call on the table is in progress.
MapQuiet == \A t \in MapThreads : map_loc[t].pc = "idle"

\* get_from_chunk and get on a table on which no call is in progress.
RECURSIVE GetFromChunk(_, _, _, _)
GetFromChunk(ch, key, idx, counter) ==
    IF counter >= ch.capacity THEN Raw(0, EMPTY_VALUE)
    ELSE LET i == MaskIdx(idx, ch.capacity)
         IN  IF ch.keys[i] = key /\ ValueNew(ch.vals[i]).parsed # "Empty" THEN ch.vals[i]
             ELSE IF ch.keys[i] = EMPTY_KEY THEN Raw(0, EMPTY_VALUE)
             ELSE GetFromChunk(ch, key, i + 1, counter + 1)

GetAtRest(key) ==
    LET val == ValueNew(GetFromChunk(map_chunks[map_old], key, key, 0))
    IN  IF val.parsed \in { "Val", "Prime" } THEN val.v ELSE 0

\* Every call made so far was an insert that returned, and no two of them had
\* the same key.
DistinctInserts ==
    /\ \A i \in 1 .. Len(map_log) : map_log[i].op = "insert" /\ map_log[i].kind = "return"
    /\ \A i, j \in 1 .. Len(map_log) : i # j => map_log[i].key # map_log[j].key

C24_RemoveReturns ==
    \A i \in 1 .. Len(map_log) :
        map_log[i].op = "remove" =>
            /\ map_log[i].kind = "return"
            /\ map_log[i].ret = MapExpected(i, map_log[i].key)

\* The keys that the calls made so far left mapped.
LiveKeys == { k \in MapKeys : MapExpected(Len(map_log) + 1, k) # 0 }

\* C25: whenever no call is in progress, the occupation counter of the current
\* chunk is the number of live keys (so an overwrite leaves it as it was, a
\* remove lowers it by one, and it is 0 once every key was removed). One
\* thread makes the calls.
C25_OccupationCountsLiveKeys ==
    MapQuiet => map_chunks[map_new].occupation = Cardinality(LiveKeys)

\* The slots of chunk c that were taken: their key is no longer EMPTY_KEY.
TakenSlots(c) ==
    { i \in 0 .. map_chunks[c].capacity - 1 : map_chunks[c].keys[i] # EMPTY_KEY }

\* C25 (amended): whenever no call is in progress, the occupation counter of
\* the current chunk is the number of its slots taken so far: every insert
\* that returns, overwriting or not, takes one more slot and raises it by one,
\* a remove leaves it as it is, and a resize starts the new chunk with the
\* number of live entries it copied. One thread makes the calls.
C25_OccupationCountsTakenSlots ==
    MapQuiet => map_chunks[map_new].occupation = Cardinality(TakenSlots(map_new))

\* C25 witness: after an overwrite or a remove has returned, with no call in
\* progress, the counter is above the number of live keys.
C25_Witness ==
    /\ MapQuiet
    /\ \E i \in 1 .. Len(map_log) : map_log[i].op = "remove" /\ map_log[i].kind = "return"
    /\ map_chunks[map_new].occupation > Cardinality(LiveKeys)
    /\ map_chunks[map_new].occupation = Cardinality(TakenSlots(map_new))

\* C26: a get(k) that ran while the copy into chunk c was in progress returns
\* the value of k whenever an insert of k had returned before that copy
\* started and no other insert and no remove of k was made afterwards. The
\* property is stated of the call that ended last.
C26_GetDuringResize ==
    LET n == Len(map_log)
    IN  \A c \in 2 .. Len(map_chunks) :
          (/\ n > 0
           /\ map_log[n].op = "get"
           /\ c \in map_log[n].during
           /\ \E j \in 1 .. map_chunks[c].born :
                 /\ map_log[j].op = "insert" /\ map_log[j].kind = "return"
                 /\ map_log[j].key = map_log[n].key
           /\ \A j \in 1 .. n :
                 (map_log[j].key = map_log[n].key /\ map_log[j].op # "get") =>
                     j <= map_chunks[c].born /\ map_log[j].op = "insert"
           /\ \A t \in MapThreads :
                 map_loc[t].key = map_log[n].key => map_loc[t].op = "get")
          => map_log[n].kind = "return" /\ map_log[n].ret # 0

\* C27: when a refresh returns without having stopped at the key looked up,
\* every pair (k, v) whose push had returned before the refresh was called is
\* out of its bin, and the authoritative map holds for k a value that was
\* pushed for k. The log keeps the map and the bins as they were when the
\* refresh returned.
C27_RefreshReflectsPushes ==
    \A j \in 1 .. Len(ev_log) :
        (ev_log[j].op \in { "refresh", "env_refresh" } /\ ~ev_log[j].short) =>
            \A i \in 1 .. ev_log[j].since :
                ev_log[i].op = "push" =>
                    /\ \E h \in EvPushes :
                          /\ ev_log[h].key = ev_log[i].key
                          /\ ev_log[j].map[ev_log[i].key] = ev_log[h].value
                    /\ \A b \in 1 .. NumEvBins : \A n \in 1 .. Len(ev_log[j].bins[b]) :
                          ev_log[j].bins[b][n].v # ev_log[i].value

\* C28 as stated: a resize allocates a chunk of 4 times the old capacity when
\* the old capacity is below 2048 and of 2 times the old capacity otherwise.
C28_ResizeTimesFour ==
    rs_pc = "resized" =>
        rs_new_cap = (IF rs_cap < ResizeDoubleFrom THEN 4 * rs_cap ELSE 2 * rs_cap)

\* C28, amended: a resize allocates a chunk of 16 times the old capacity (the
\* old capacity shifted left by 4) when the old capacity is below 2048 and of
\* 2 times the old capacity otherwise; without a resize nothing is allocated.
C28_ResizeShiftsByFour ==
    /\ rs_pc = "resized" =>
          rs_new_cap = (IF rs_cap < ResizeDoubleFrom THEN 16 * rs_cap ELSE 2 * rs_cap)
    /\ rs_pc = "kept" => rs_new_cap = 0

\* C28 witness: a chunk of 1024 entries over its occupation limit was resized.
C28_Witness ==
    /\ rs_pc = "resized"
    /\ rs_cap = 1024
    /\ rs_new_cap = 16384

\* The slots of chunk c that hold key k with a live value.
LiveSlots(c, k) ==
    { i \in 0 .. map_chunks[c].capacity - 1 :
        /\ map_chunks[c].keys[i] = k
        /\ ValueNew(map_chunks[c].vals[i]).parsed \in { "Val", "Prime" } }

\* C29: in every reachable state every chunk holds, for every key, at most
\* one slot with that key and a live value.
C29_OneLiveSlot ==
    \A c \in 1 .. Len(map_chunks) : \A k \in MapKeys :
        Cardinality(LiveSlots(c, k)) <= 1

\* C30: no insert ends with table-full surfaced to its caller: the log holds
\* no call that was aborted by the panic of insert's TableFull arm.
C30_TableFullNeverSurfaces ==
    \A i \in 1 .. Len(map_log) : map_log[i].kind # "table_full"

\* C31: every value word stored in a chunk is parsed by Value::new as the
\* claim classifies it: a word with the high bit set as prime, carrying the
\* word without the high bit; 0 as empty; 1 as sentinel; every other word as a
\* live value.
C31_ValueParsing ==
    \A c \in 1 .. Len(map_chunks) : \A i \in 0 .. map_chunks[c].capacity - 1 :
        LET raw == map_chunks[c].vals[i]
            val == ValueNew(raw)
        IN  /\ raw.top = 1 => val.parsed = "Prime" /\ val.v = raw.low
            /\ raw = Raw(0, EMPTY_VALUE) => val.parsed = "Empty"
            /\ raw = Raw(0, SENTINEL_VALUE) => val.parsed = "Sentinel"
            /\ (raw.top = 0 /\ raw.low > SENTINEL_VALUE) =>
                   val.parsed = "Val" /\ val.v = raw.low

\* C32: a remove(k) that ran while a resize was copying, for a key that was
\* live in the old chunk and not copied, removed k from the old chunk and
\* returned its value. The property is stated of the state a remove leaves
\* when it was the last call to end: the copy is still in progress, no other
\* call touched k since the remove began, and the new chunk has no slot of k
\* (so that k, if it is live in the old chunk, was so throughout the remove).
C32_RemoveDuringResize ==
    LET n == Len(map_log)
        k == map_log[n].key
    IN  (/\ n > 0
         /\ map_log[n].op = "remove"
         /\ map_log[n].kind = "return"
         /\ map_log[n].during # {}
         /\ map_old # map_new
         /\ \A j \in map_log[n].since + 1 .. n - 1 : map_log[j].key # k
         /\ \A t \in MapThreads :
               map_loc[t].pc \notin { "idle", "aborted" } =>
                   map_loc[t].key # k /\ map_loc[t].mod_key # k
         /\ \A i \in 0 .. map_chunks[map_new].capacity - 1 :
               map_chunks[map_new].keys[i] # k)
        => /\ LiveSlots(map_old, k) = {}
           /\ (\E j \in 1 .. map_log[n].since :
                  /\ map_log[j].key = k /\ map_log[j].op = "insert"
                  /\ map_log[j].kind = "return"
                  /\ \A h \in j + 1 .. n - 1 : map_log[h].key # k) => map_log[n].ret # 0

\* The chunks thread t has borrowed and reads or writes at its position: the
\* chunk get_from_chunk or modify_entry probes, the chunk check_resize reads
\* the occupation of, the new chunk an insert or remove has borrowed.
MapTouched(t) ==
    LET l == map_loc[t]
    IN  IF l.pc \in { "get_probe", "probe", "put_in_empty", "store_key",
                      "set_tombstone", "set_sentinel" } THEN { l.chunk }
        ELSE IF l.pc = "resize_check" THEN { l.old_ptr }
        ELSE IF l.pc \in { "borrow_old", "modify_new" } THEN { l.new_ptr }
        ELSE { }

\* C33: no thread reads or writes a chunk after it was deallocated: every
\* chunk a thread has borrowed and is working on is still allocated.
C33_NoUseAfterFree ==
    \A t \in MapThreads : \A c \in MapTouched(t) : ~map_chunks[c].freed

\* C34: a push that has won the CAS of page.head from h to h + 1 finds the
\* empty flag in slot h when it stores its flag, so that its assert_eq! holds;
\* and no pop returns the sentinel flag as a value.
C34_PushFindsSlotEmpty ==
    /\ \A t \in ListThreads :
          pl_loc[t].pc = "push_write" =>
              pl_bufs[pl_loc[t].head_ptr].slots[pl_loc[t].slot] = EMPTY_SLOT
    /\ \A j \in DOMAIN pl_log :
          pl_log[j].op = "pop" => pl_log[j].v # SENTINEL_SLOT

\* The origin a bookmark records for the object at addr is plausible: alloc
\* returns the origin plus a padding, so the origin is not above the object
\* and not further below it than a free list covers.
PlausibleOrigin(origin_addr, addr) ==
    origin_addr <= addr /\ ~BeyondCovered(addr, origin_addr)

\* The bookmark in front of addr is inconsistent with the layout handed to
\* dealloc.
InconsistentBookmark(addr, layout) ==
    \/ mem[addr - WordSize] - 1 # size_of_object(layout).actual_size
    \/ ~PlausibleOrigin(mem[addr - 2 * WordSize], addr)

\* C35: a dealloc of a pointer whose bookmark is inconsistent (the recorded
\* size is not the size of the layout, or the recorded origin is outside the
\* plausible range) pushed nothing onto a free list.
C35_BadBookmarkIgnored ==
    (hlast.op = "dealloc" /\ InconsistentBookmark(hlast.ret, hlast.layout)) =>
        ~hlast.pushed

\* The steps of thread t inside a call of ExchangeSlot::exchange, after the
\* load of the state that begins it.
ExThread(t) ==
    \/ ExErrInput(t) \/ ExWaitEmpty(t) \/ ExCasWaiting(t)
    \/ ExWriteCell(t) \/ ExSyncLoad(t) \/ ExSyncStore(t) \/ ExSpin(t)
    \/ ExCheckBusy(t) \/ ExWaitBusy(t) \/ ExStoreEmpty(t) \/ ExSwap(t)
    \/ ExOk(t) \/ ExBailAssert(t) \/ ExErrReturned(t) \/ ExCasBusy(t)
    \/ ExWaitWaiting(t)

\* A thread inside a call that can take a step eventually takes one: the
\* threads are operating-system threads, each scheduled again and again.
\* No thread is obliged to begin another call.
ExFairness == \A t \in ExThreads : WF_vars(ExThread(t))

SpecExchangeFair == ExSpecInit /\ [][ExNext]_vars /\ ExFairness

\* C36: under weak fairness of every thread, every exchange call returns: a
\* thread that is inside exchange is eventually outside of it again.
C36_ExchangeReturns ==
    \A t \in ExThreads : (ex_loc[t].pc # "idle") ~> (ex_loc[t].pc = "idle")

\* C37: the element counter of the paged list never goes below zero (a usize
\* that would wrap), in any interleaving of push, pop and exchange.
C37_CountNeverUnderflows == pl_list.count >= 0

\* C38: no slot of the chunk that new_chunk points to holds a sentinel: a
\* sentinel is only ever stored in a chunk a resize has superseded.
C38_NoSentinelInNewChunk ==
    \A i \in 0 .. map_chunks[map_new].capacity - 1 :
        map_chunks[map_new].vals[i] # Raw(0, SENTINEL_VALUE)

\* The entry of address a is where a refresh of node n finds it: in the
\* index, in the cache of a producer registered with the node, or in the
\* hands of a refresh that has drained the caches and not yet inserted.
IndexReaches(n, a) ==
    \/ a \in DOMAIN objects[n]
    \/ \E p \in producers[n] : \E i \in cache[p] : i.addr = a
    \/ \E t \in SmallThreads :
          spc[t] = "free_insert" /\ \E i \in sloc[t].items : i.addr = a

\* C39: every address allocate returned and nobody freed can be freed: a
\* refresh of the owning node's index brings the address into the index,
\* also after the thread that allocated it has exited.
C39_AllocatedStaysFreeable ==
    \A o \in slive : IndexReaches(addr_numa_id(o.addr), o.addr)

\* C40: for every node count, each node's base lies inside the heap, the
\* shares of two nodes do not overlap, and addr_numa_id of an address handed
\* out from a node's bump cursor is that node.
C40_NodeLayout ==
    /\ \A i \in 0 .. nm_nodes - 1 :
          /\ HEAP_BASE <= node_base(nm_nodes, i)
          /\ node_base(nm_nodes, i) < HEAP_BASE + total_heap(nm_nodes)
    /\ \A i, j \in 0 .. nm_nodes - 1 :
          i < j => node_base(nm_nodes, i) + PerNodeHeap <= node_base(nm_nodes, j)
    /\ nm_ret # 0 => AddrNumaId(nm_nodes, nm_ret) = nm_node

=============================================================================
